---- MODULE Spec2Model ----
(***************************************************************************)
(* Policy matching and violation evaluation of ghascompliance              *)
(* (advanced-security/policy-as-code): the severity taxonomy, the wildcard *)
(* matcher, the per-alert evaluation of the secret-scanning and the        *)
(* supply-chain checkers and the PolicyState accumulator.                  *)
(*                                                                         *)
(* Identifiers, names and patterns are sequences of one-character strings  *)
(* so that glob matching and case folding are computed.  Severity labels   *)
(* are atomic strings; lower-casing them is the table LabelLower.          *)
(***************************************************************************)
EXTENDS Integers, Sequences, FiniteSets, TLC

VARIABLES
    os_name,     \* which os.path fnmatch sees: "posix" or "nt"
    technology,  \* class of the checker: "secretscanning" or "supplychain"
    policy,      \* Policy.secretscanning / Policy.supplychain: the list of rules
    github,      \* what the platform reports: the feature and its sub-feature enabled
    state,       \* Checker.state: PolicyState(criticals, errors, warnings, ignored)
    severities,  \* Checker.severities
    pc,          \* position of check(): "idle", "policy", "alerts", "done"
    alerts,      \* the alerts getAlerts() returned to the running check()
    pidx,        \* index in policy of the rule check() is working on
    todo,        \* alerts still to evaluate against policy[pidx]
    last,        \* the most recent call: operation, arguments, state before, result
    legacy,      \* the legacy Policy object: risk_level, severities, policy, remediate
    recorded,    \* the decisions handed to PolicyState since its last reset, by kind
    request,     \* the call the legacy Policy is about to receive: operation, arguments
    cli,         \* the run of __main__: arguments, position, errors, Summary.summary, exit
    pullrequest, \* PullRequest.add_pr_comment, isInPullRequest() and the comments of the PR
    codescanning, \* CodeScanning: retry_count, retry_sleep and the getAnalyses() in progress
    evaluated    \* the evaluations of the running check(): rule, alert and decision

vars == <<os_name, technology, policy, github, state, severities, pc, alerts, pidx, todo, last,
          legacy, recorded, request, cli, pullrequest, codescanning, evaluated>>

\* what the checkers, the legacy Policy and PolicyState never touch
cliVars == <<cli, pullrequest, codescanning>>

\* ---------------------------------------------------------------- bounds
\* Most decisions a PolicyState may hold: check() starts only when the
\* decisions of the whole run still fit.
MaxDecisions == 4

\* ------------------------------------------------------- character strings
str_aws == <<"a", "w", "s">>
str_AWS == <<"A", "W", "S">>
str_azure == <<"a", "z", "u", "r", "e">>
str_a_star == <<"a", "*">>
str_a_q_s == <<"a", "?", "s">>
str_Aws_star == <<"A", "w", "s", "*">>
str_py_sqli == <<"p", "y", "/", "s", "q", "l", "i">>
str_PY_SQLI == <<"P", "Y", "/", "S", "Q", "L", "I">>
str_py_star == <<"p", "y", "/", "*">>
str_star == <<"*">>

UpperCase == <<"A", "B", "C", "D", "E", "F", "G", "H", "I", "J", "K", "L", "M",
               "N", "O", "P", "Q", "R", "S", "T", "U", "V", "W", "X", "Y", "Z">>
LowerCase == <<"a", "b", "c", "d", "e", "f", "g", "h", "i", "j", "k", "l", "m",
               "n", "o", "p", "q", "r", "s", "t", "u", "v", "w", "x", "y", "z">>

\* index of the first occurrence of x in seq (list.index), 0 when absent
IndexOf(seq, x) ==
    IF \E i \in 1..Len(seq) : seq[i] = x
    THEN CHOOSE i \in 1..Len(seq) : seq[i] = x /\ \A j \in 1..(i - 1) : seq[j] # x
    ELSE 0

Range(seq) == {seq[i] : i \in 1..Len(seq)}

\* str.lower() of one character
CharLower(c) == IF IndexOf(UpperCase, c) # 0 THEN LowerCase[IndexOf(UpperCase, c)] ELSE c

\* str.lower() of a character string
StrLower(s) == [i \in 1..Len(s) |-> CharLower(s[i])]

\* os.path.normcase: the identity on posix; lower case and "/" to "\" on nt
normcase(s, os) ==
    IF os = "posix" THEN s
    ELSE [i \in 1..Len(s) |-> IF s[i] = "/" THEN "\\" ELSE CharLower(s[i])]

\* the regular expression fnmatch.translate builds, matched against the whole
\* name: "*" is any run of characters, "?" any one character, any other
\* character itself (patterns here hold no "[")
RECURSIVE GlobMatch(_, _)
GlobMatch(name, pat) ==
    IF pat = <<>> THEN name = <<>>
    ELSE IF Head(pat) = "*"
         THEN GlobMatch(name, Tail(pat)) \/ (name # <<>> /\ GlobMatch(Tail(name), pat))
         ELSE /\ name # <<>>
              /\ (Head(pat) = "?" \/ Head(pat) = Head(name))
              /\ GlobMatch(Tail(name), Tail(pat))

\* fnmatch.filter(names, pat): the names that match pat
fnmatch_filter(names, pat, os) ==
    IF os = "posix"
    THEN SelectSeq(names, LAMBDA n : GlobMatch(n, normcase(pat, os)))
    ELSE SelectSeq(names, LAMBDA n : GlobMatch(normcase(n, os), normcase(pat, os)))

\* Checker.matchContent(name, validators)
matchContent(name, validators, os) ==
    \E i \in 1..Len(validators) : fnmatch_filter(<<name>>, validators[i], os) # <<>>

\* ------------------------------------------------------- severity taxonomy
\* SeverityLevelEnum.getAllSeverities(): the member values in definition
\* order, without ALL and NONE
getAllSeverities == <<"critical", "high", "error", "errors", "medium", "moderate",
                      "low", "warning", "warnings", "note", "notes">>

\* the values of all members of SeverityLevelEnum
SeverityLevelEnum == Range(getAllSeverities) \cup {"all", "none"}

\* consts.SEVERITIES of the legacy Policy
SEVERITIES == <<"critical", "high", "error", "medium", "moderate", "low", "warning", "note">>

\* str.lower() on the labels the model uses
LabelLower(s) ==
    CASE s = "HIGH" -> "high"
      [] s = "High" -> "high"
      [] s = "Error" -> "error"
      [] s = "ERRORS" -> "errors"
      [] s = "ALL" -> "all"
      [] s = "None" -> "none"
      [] s = "Bogus" -> "bogus"
      [] OTHER -> s

Ok(v) == [raised |-> "none", value |-> v]
Raise(e) == [raised |-> e, value |-> <<>>]

\* getSeveritiesFromName with the slice one short: severities[: index] for "higher"
getSeveritiesFromName_sliceShort(severity, grouping) ==
    IF severity = "none" THEN Ok(<<>>)
    ELSE IF severity = "all" THEN Ok(getAllSeverities)
    ELSE IF grouping = "higher"
         THEN IF IndexOf(getAllSeverities, severity) = 0 THEN Raise("ValueError")
              ELSE Ok(SubSeq(getAllSeverities, 1, IndexOf(getAllSeverities, severity) - 1))
    ELSE IF grouping = "lower"
         THEN IF IndexOf(getAllSeverities, severity) = 0 THEN Raise("ValueError")
              ELSE Ok(SubSeq(getAllSeverities, IndexOf(getAllSeverities, severity),
                             Len(getAllSeverities)))
    ELSE Ok(<<>>)

\* SeverityLevelEnum.getSeveritiesFromName(severity, grouping)
getSeveritiesFromName(severity, grouping) ==
    IF severity = "none" THEN Ok(<<>>)
    ELSE IF severity = "all" THEN Ok(getAllSeverities)
    ELSE IF grouping = "higher"
         THEN IF IndexOf(getAllSeverities, severity) = 0 THEN Raise("ValueError")
              ELSE Ok(SubSeq(getAllSeverities, 1, IndexOf(getAllSeverities, severity)))
    ELSE IF grouping = "lower"
         THEN IF IndexOf(getAllSeverities, severity) = 0 THEN Raise("ValueError")
              ELSE Ok(SubSeq(getAllSeverities, IndexOf(getAllSeverities, severity),
                             Len(getAllSeverities)))
    ELSE Ok(<<>>)

\* _buildSeverityList whose unknown-label branch falls through to the full list
_buildSeverityList_unknownIsAll(severity) ==
    IF severity = "" THEN Raise("Exception")
    ELSE LET sev == LabelLower(severity) IN
         IF sev = "none" THEN Ok(<<>>)
         ELSE IF sev \in Range(SEVERITIES)
              THEN Ok(SubSeq(SEVERITIES, 1, IndexOf(SEVERITIES, sev)))
         ELSE Ok(SEVERITIES)

\* Policy._buildSeverityList(severity) of the legacy Policy
_buildSeverityList(severity) ==
    IF severity = "" THEN Raise("Exception")
    ELSE LET sev == LabelLower(severity) IN
         IF sev = "none" THEN Ok(<<>>)
         ELSE IF sev = "all" THEN Ok(SEVERITIES)
         ELSE IF sev \in Range(SEVERITIES)
              THEN Ok(SubSeq(SEVERITIES, 1, IndexOf(SEVERITIES, sev)))
         ELSE Ok(<<>>)

\* ------------------------------------------------------------- PolicyState
\* PolicyState.__init__ / PolicyState.reset
PolicyState_reset == [criticals |-> <<>>, errors |-> <<>>, warnings |-> <<>>, ignored |-> <<>>]

\* PolicyState.critical(data, trigger_name)
PolicyState_critical(st, data, trigger_name) ==
    [st EXCEPT !.criticals = Append(@, [msg |-> data, trigger |-> trigger_name])]

\* PolicyState.error(data, trigger_name)
PolicyState_error(st, data, trigger_name) ==
    [st EXCEPT !.errors = Append(@, [msg |-> data, trigger |-> trigger_name])]

\* PolicyState.warning appending to the errors list
PolicyState_warning_asError(st, data, trigger_name) ==
    [st EXCEPT !.errors = Append(@, [msg |-> data, trigger |-> trigger_name])]

\* PolicyState.warning(data, trigger_name)
PolicyState_warning(st, data, trigger_name) ==
    [st EXCEPT !.warnings = Append(@, [msg |-> data, trigger |-> trigger_name])]

\* PolicyState.ignore(data, trigger_name)
PolicyState_ignore(st, data, trigger_name) ==
    [st EXCEPT !.ignored = Append(@, [msg |-> data, trigger |-> trigger_name])]

\* PolicyState.reset() leaving the ignored list as it is
PolicyState_doReset_keepsIgnored(st) ==
    [st EXCEPT !.criticals = <<>>, !.errors = <<>>, !.warnings = <<>>]

\* PolicyState.reset(): the four lists are assigned []
PolicyState_doReset(st) ==
    [st EXCEPT !.criticals = <<>>, !.errors = <<>>, !.warnings = <<>>, !.ignored = <<>>]

TotalDecisions(st) == Len(st.criticals) + Len(st.errors) + Len(st.warnings) + Len(st.ignored)

\* ------------------------------------------------- secret-scanning checker
\* SecretScanningChecker.error(alert, trigger_name)
SecretScanningChecker_error(st, alert, trigger_name) ==
    PolicyState_error(st, <<"Unresolved Secret", alert.secret_type>>, trigger_name)

\* SecretScanningChecker.warning(alert, trigger_name)
SecretScanningChecker_warning(st, alert, trigger_name) ==
    PolicyState_warning(st, <<"Unresolved Secret", alert.secret_type>>, trigger_name)

\* checkSecretScanningAlert with the severity check after the id and name checks
checkSecretScanningAlert_severityLast(st, rule, alert, os) ==
    IF matchContent(alert.secret_type, rule.ids_ignores, os)
    THEN PolicyState_ignore(st, <<"ignore alert">>, "id-match")
    ELSE IF matchContent(alert.secret_type, rule.ids_warnings, os)
    THEN SecretScanningChecker_warning(st, alert, "id-match")
    ELSE IF matchContent(alert.secret_type, rule.ids, os)
    THEN SecretScanningChecker_error(st, alert, "id-match")
    ELSE IF matchContent(alert.secret_type_display_name, rule.names, os)
    THEN SecretScanningChecker_error(st, alert, "name-match")
    ELSE IF rule.severity = "all"
    THEN SecretScanningChecker_error(st, alert, "severity-all")
    ELSE st

\* checkSecretScanningAlert that reports nothing once an error is recorded
checkSecretScanningAlert_onceOnly(st, rule, alert, os) ==
    IF st.errors # <<>> THEN st
    ELSE IF rule.severity = "all"
    THEN SecretScanningChecker_error(st, alert, "severity-all")
    ELSE IF matchContent(alert.secret_type, rule.ids_ignores, os)
    THEN PolicyState_ignore(st, <<"ignore alert">>, "id-match")
    ELSE IF matchContent(alert.secret_type, rule.ids_warnings, os)
    THEN SecretScanningChecker_warning(st, alert, "id-match")
    ELSE IF matchContent(alert.secret_type, rule.ids, os)
    THEN SecretScanningChecker_error(st, alert, "id-match")
    ELSE IF matchContent(alert.secret_type_display_name, rule.names, os)
    THEN SecretScanningChecker_error(st, alert, "name-match")
    ELSE st

\* SecretScanningChecker.checkSecretScanningAlert(policy, alert): the state after
checkSecretScanningAlert(st, rule, alert, os) ==
    IF rule.severity = "all"
    THEN SecretScanningChecker_error(st, alert, "severity-all")
    ELSE IF matchContent(alert.secret_type, rule.ids_ignores, os)
    THEN PolicyState_ignore(st, <<"ignore alert">>, "id-match")
    ELSE IF matchContent(alert.secret_type, rule.ids_warnings, os)
    THEN SecretScanningChecker_warning(st, alert, "id-match")
    ELSE IF matchContent(alert.secret_type, rule.ids, os)
    THEN SecretScanningChecker_error(st, alert, "id-match")
    ELSE IF matchContent(alert.secret_type_display_name, rule.names, os)
    THEN SecretScanningChecker_error(st, alert, "name-match")
    ELSE st

\* ---------------------------------------------------- supply-chain checker
\* DependabotChecker.error(alert, check_name)
DependabotChecker_error(st, alert, check_name) ==
    PolicyState_error(st, alert.purl, check_name)

\* checkSupplyChainAlert that takes a label outside the enum for a violation
\* when every severity is one
checkSupplyChainAlert_unknownUnderAll(st, sevs, rule, alert) ==
    IF alert.severity \in Range(sevs)
       \/ (sevs = getAllSeverities /\ alert.severity \notin SeverityLevelEnum)
    THEN DependabotChecker_error(st, alert, "severity")
    ELSE st

\* DependabotChecker.checkSupplyChainAlert(policy, alert): the state after
checkSupplyChainAlert(st, sevs, rule, alert) ==
    IF alert.severity \in Range(sevs)
    THEN DependabotChecker_error(st, alert, "severity")
    ELSE st

\* --------------------------------------------------------------- the inputs
str_Azure == <<"A", "z", "u", "r", "e">>
str_purl == <<"p", "k", "g", ":", "x">>
str_ghsa == <<"G", "H", "S", "A", "-", "1">>

\* SecretScanningPolicy(): the default-constructed rule
SecretScanningPolicy ==
    [enabled |-> TRUE, push_protection |-> FALSE, push_protection_warning |-> TRUE,
     severity |-> "all", ids |-> <<>>, ids_warnings |-> <<>>, ids_ignores |-> <<>>,
     names |-> <<>>]

\* SupplyChainPolicy(): the default-constructed rule
SupplyChainPolicy ==
    [enabled |-> TRUE, security_updates |-> FALSE, severity |-> "high",
     names |-> <<>>, advisories_ignores |-> <<>>]

SecretRules ==
    [enabled : BOOLEAN, push_protection : BOOLEAN, push_protection_warning : BOOLEAN,
     severity : {"all", "high", "none"},
     ids : {<<>>, <<str_a_star>>},
     ids_warnings : {<<>>, <<str_a_q_s>>},
     ids_ignores : {<<>>, <<str_aws>>},
     names : {<<>>, <<str_AWS>>}]

SupplyRules ==
    [enabled : BOOLEAN, security_updates : BOOLEAN, severity : SeverityLevelEnum,
     names : {<<>>}, advisories_ignores : {<<>>, <<str_ghsa>>}]

\* layered rule sets: a rule followed by the default rule
SecretPolicies ==
    {<<r>> : r \in SecretRules}
    \cup {<<[SecretScanningPolicy EXCEPT !.severity = sv, !.enabled = en], SecretScanningPolicy>> :
             sv \in {"all", "high"}, en \in BOOLEAN}

SupplyPolicies ==
    {<<r>> : r \in SupplyRules}
    \cup {<<[SupplyChainPolicy EXCEPT !.severity = sv, !.enabled = en], SupplyChainPolicy>> :
             sv \in {"critical", "all"}, en \in BOOLEAN}

SecretAlerts ==
    {[secret_type |-> str_aws, secret_type_display_name |-> str_AWS],
     [secret_type |-> str_AWS, secret_type_display_name |-> str_AWS],
     [secret_type |-> str_azure, secret_type_display_name |-> str_Azure]}

DependencyAlerts ==
    [severity : {"critical", "high", "HIGH", "error", "errors", "moderate", "unknown"},
     purl : {str_purl}, ghsa_id : {str_ghsa}]

\* what getAlerts() may return
SecretAlertLists ==
    {<<>>} \cup {<<a>> : a \in SecretAlerts} \cup {<<a, b>> : a \in SecretAlerts, b \in SecretAlerts}
    \cup {<<[secret_type |-> str_aws, secret_type_display_name |-> str_AWS],
             [secret_type |-> str_azure, secret_type_display_name |-> str_Azure],
             [secret_type |-> str_aws, secret_type_display_name |-> str_AWS]>>}

DependencyAlertLists ==
    {<<>>} \cup {<<a>> : a \in DependencyAlerts}
    \cup {<<a, b>> : a \in {x \in DependencyAlerts : x.severity \in {"critical", "HIGH"}},
                     b \in {x \in DependencyAlerts : x.severity \in {"high", "moderate"}}}
    \cup {<<a, b>> : a \in {x \in DependencyAlerts : x.severity = "unknown"},
                     b \in {x \in DependencyAlerts : x.severity = "critical"}}

NoRule == [severity |-> "none"]
NoAlert == [severity |-> "none"]

Call(op, rule, alert, before, arg, result) ==
    [op |-> op, rule |-> rule, alert |-> alert, before |-> before, arg |-> arg, result |-> result]

\* ------------------------------------------------------ the legacy Policy
\* consts.TECHNOLOGIES: the sections loadPolicy resolves
TECHNOLOGIES == <<"codescanning", "dependabot", "secretscanning">>

\* the keys of the policy dict the model keeps
SectionNames == {"general"} \cup Range(TECHNOLOGIES)

\* results of the methods that return a bool
OkB(b) == [raised |-> "none", value |-> b]
RaiseB(e) == [raised |-> e, value |-> FALSE]

\* creation_time: None, or a datetime, of which date() is the day number
NoTime == [given |-> FALSE, day |-> 0]
At(d) == [given |-> TRUE, day |-> d]

\* one item of a remediate dict; the dict is the sequence of its items in
\* insertion order
Item(k, d) == [key |-> k, days |-> d]

\* key in remediate
HasKey(remediate, key) == \E i \in 1..Len(remediate) : remediate[i].key = key

\* remediate.get(key), for a key that is there
Get(remediate, key) ==
    remediate[CHOOSE i \in 1..Len(remediate) : remediate[i].key = key].days

\* the for loop of checkViolationRemediation with every key applying to
\* every severity
RECURSIVE remediateItems_anyKey(_, _, _, _, _)
remediateItems_anyKey(severity, remediate, creation_time, now, i) ==
    IF i > Len(remediate) THEN OkB(FALSE)
    ELSE IF ~creation_time.given THEN RaiseB("TypeError")
    ELSE IF now > creation_time.day + remediate[i].days THEN OkB(TRUE)
    ELSE remediateItems_anyKey(severity, remediate, creation_time, now, i + 1)

\* the for loop of checkViolationRemediation returning at the first key whose
\* list holds the severity, elapsed or not
RECURSIVE remediateItems_firstKeyWins(_, _, _, _, _)
remediateItems_firstKeyWins(severity, remediate, creation_time, now, i) ==
    IF i > Len(remediate) THEN OkB(FALSE)
    ELSE LET remediate_severity_list == _buildSeverityList(remediate[i].key) IN
         IF remediate_severity_list.raised # "none" THEN RaiseB(remediate_severity_list.raised)
         ELSE IF severity \in Range(remediate_severity_list.value)
              THEN IF ~creation_time.given THEN RaiseB("TypeError")
                   ELSE OkB(now > creation_time.day + remediate[i].days)
         ELSE remediateItems_firstKeyWins(severity, remediate, creation_time, now, i + 1)

\* Policy.checkViolationRemediation: the for loop over remediate.items(),
\* from item i on; creation_time + timedelta fails on None
RECURSIVE remediateItems(_, _, _, _, _)
remediateItems(severity, remediate, creation_time, now, i) ==
    IF i > Len(remediate) THEN OkB(FALSE)
    ELSE LET remediate_severity_list == _buildSeverityList(remediate[i].key) IN
         IF remediate_severity_list.raised # "none" THEN RaiseB(remediate_severity_list.raised)
         ELSE IF severity \in Range(remediate_severity_list.value)
              THEN IF ~creation_time.given THEN RaiseB("TypeError")
                   ELSE IF now > creation_time.day + remediate[i].days THEN OkB(TRUE)
                   ELSE remediateItems(severity, remediate, creation_time, now, i + 1)
         ELSE remediateItems(severity, remediate, creation_time, now, i + 1)

\* checkViolationRemediation with the deadline day itself counted as elapsed
checkViolationRemediation_inclusive(severity, remediate, creation_time, now) ==
    IF creation_time.given /\ HasKey(remediate, severity) /\ Get(remediate, severity) # 0
    THEN OkB(now >= creation_time.day + Get(remediate, severity))
    ELSE remediateItems(severity, remediate, creation_time, now, 1)

\* Policy.checkViolationRemediation(severity, remediate, creation_time), with
\* now = datetime.datetime.now().date()
checkViolationRemediation(severity, remediate, creation_time, now) ==
    IF creation_time.given /\ HasKey(remediate, severity) /\ Get(remediate, severity) # 0
    THEN OkB(now > creation_time.day + Get(remediate, severity))
    ELSE remediateItems(severity, remediate, creation_time, now, 1)

\* a section of the policy dict: level ("" when the key is missing), the
\* remediate dict and whether its key is there, the names and ids of the
\* conditions and of the ignores blocks
NoBlock == [names |-> <<>>, ids |-> <<>>]
Section(level, has_remediate, remediate, conditions, ignores) ==
    [defined |-> TRUE, level |-> level, has_remediate |-> has_remediate,
     remediate |-> remediate, conditions |-> conditions, ignores |-> ignores]

\* a key the policy dict does not have
NoSection ==
    [defined |-> FALSE, level |-> "", has_remediate |-> FALSE, remediate |-> <<>>,
     conditions |-> NoBlock, ignores |-> NoBlock]

\* the empty dict
EmptyDict == Section("", FALSE, <<>>, NoBlock, NoBlock)

\* bool(data) of a section: the key is there and its dict is not empty
Truthy(data) ==
    /\ data.defined
    /\ \/ data.level # ""
       \/ data.has_remediate
       \/ data.conditions # NoBlock
       \/ data.ignores # NoBlock

\* self.policy.get(technology, {})
PolicyGet(pol, tech) ==
    IF tech \in DOMAIN pol /\ pol[tech].defined THEN pol[tech] ELSE EmptyDict

\* bool(self.policy): the dict has a key
PolicyLoaded(pol) == \E n \in DOMAIN pol : pol[n].defined

\* [x.lower() for x in patterns]
LowerAll(patterns) == [i \in DOMAIN patterns |-> StrLower(patterns[i])]

\* the loop with an ignore match of any candidate taken before the
\* condition match of an earlier one
scanCandidates_ignoreAnywhere(cands, ignores, conditions, os, i) ==
    IF \E j \in i..Len(cands) : matchContent(StrLower(cands[j]), LowerAll(ignores), os)
    THEN "ignore"
    ELSE IF \E j \in i..Len(cands) : matchContent(StrLower(cands[j]), LowerAll(conditions), os)
    THEN "condition"
    ELSE "none"

\* checkViolationAgainstPolicy: one of its two for loops, from candidate i on:
\* "ignore" for return False, "condition" for return True, "none" when the
\* loop ends without returning
RECURSIVE scanCandidates(_, _, _, _, _)
scanCandidates(cands, ignores, conditions, os, i) ==
    IF i > Len(cands) THEN "none"
    ELSE IF matchContent(StrLower(cands[i]), LowerAll(ignores), os) THEN "ignore"
    ELSE IF matchContent(StrLower(cands[i]), LowerAll(conditions), os) THEN "condition"
    ELSE scanCandidates(cands, ignores, conditions, os, i + 1)

\* Policy.checkViolationAgainstPolicy(severity, technology, names, ids)
checkViolationAgainstPolicy(self, severity, tech, names, ids, os) ==
    LET sec == PolicyGet(self.policy, tech)
        byName == IF tech # "" /\ Truthy(sec)
                  THEN scanCandidates(names, sec.ignores.names, sec.conditions.names, os, 1)
                  ELSE "none"
        byId == IF tech # "" /\ Truthy(sec)
                THEN scanCandidates(ids, sec.ignores.ids, sec.conditions.ids, os, 1)
                ELSE "none"
        level == IF tech # "" /\ sec.level # "" THEN sec.level ELSE "all"
        built == IF tech = "" THEN self.severities
                 ELSE IF sec.level # "" THEN _buildSeverityList(sec.level).value
                 ELSE <<>>
        sevs == IF level = "all" THEN SEVERITIES
                ELSE IF level = "none" THEN <<>>
                ELSE built
    IN IF byName = "ignore" THEN FALSE
       ELSE IF byName = "condition" THEN TRUE
       ELSE IF byId = "ignore" THEN FALSE
       ELSE IF byId = "condition" THEN TRUE
       ELSE severity \in Range(sevs)

\* checkViolation with the overlay joined by or
checkViolation_eitherOne(self, severity, tech, names, ids, creation_time, now, os) ==
    LET sev == LabelLower(severity)
        sec == PolicyGet(self.policy, tech)
        rem == checkViolationRemediation(sev, sec.remediate, creation_time, now)
    IN IF tech = "" THEN RaiseB("Exception")
       ELSE IF sec.has_remediate /\ sec.remediate # <<>>
            THEN IF rem.raised # "none" THEN rem
                 ELSE IF sec.level # ""
                      THEN OkB(rem.value
                               \/ checkViolationAgainstPolicy(self, sev, tech, names, ids, os))
                 ELSE rem
       ELSE IF PolicyLoaded(self.policy)
            THEN OkB(checkViolationAgainstPolicy(self, sev, tech, names, ids, os))
       ELSE IF sev = "none" THEN OkB(FALSE)
       ELSE IF sev = "all" THEN OkB(TRUE)
       ELSE OkB(sev \in Range(self.severities))

\* Policy.checkViolation(severity, technology, names, ids, creation_time)
checkViolation(self, severity, tech, names, ids, creation_time, now, os) ==
    LET sev == LabelLower(severity)
        sec == PolicyGet(self.policy, tech)
        rem == checkViolationRemediation(sev, sec.remediate, creation_time, now)
    IN IF tech = "" THEN RaiseB("Exception")
       ELSE IF sec.has_remediate /\ sec.remediate # <<>>
            THEN IF rem.raised # "none" THEN rem
                 ELSE IF sec.level # ""
                      THEN OkB(rem.value
                               /\ checkViolationAgainstPolicy(self, sev, tech, names, ids, os))
                 ELSE rem
       ELSE IF PolicyLoaded(self.policy)
            THEN OkB(checkViolationAgainstPolicy(self, sev, tech, names, ids, os))
       ELSE IF sev = "none" THEN OkB(FALSE)
       ELSE IF sev = "all" THEN OkB(TRUE)
       ELSE OkB(sev \in Range(self.severities))

\* loadPolicySection with the general table written over a section's own
loadPolicySection_overwrites(self_remediate, data) ==
    LET data1 == IF ~Truthy(data) THEN Section("disabled", FALSE, <<>>, NoBlock, NoBlock)
                 ELSE data
    IN IF self_remediate.given /\ self_remediate.table # <<>>
       THEN [data1 EXCEPT !.has_remediate = TRUE, !.remediate = self_remediate.table]
       ELSE data1

\* Policy.loadPolicySection(name, data), for sections without imports and
\* with allowed keys only; self_remediate is self.remediate
loadPolicySection(self_remediate, data) ==
    LET data1 == IF ~Truthy(data) THEN Section("disabled", FALSE, <<>>, NoBlock, NoBlock)
                 ELSE data
        time_to_remediate_policy == data1.has_remediate
    IN IF ~time_to_remediate_policy /\ self_remediate.given /\ self_remediate.table # <<>>
       THEN [data1 EXCEPT !.has_remediate = TRUE, !.remediate = self_remediate.table]
       ELSE data1

\* Policy.loadPolicy: the loop over TECHNOLOGIES from the i-th on; a missing
\* section is the general dict itself, which loadPolicySection changes in place
RECURSIVE loadSections(_, _, _)
loadSections(self_remediate, pol, i) ==
    IF i > Len(TECHNOLOGIES) THEN pol
    ELSE LET tech == TECHNOLOGIES[i]
             data == IF pol[tech].defined THEN pol[tech] ELSE pol["general"]
             loaded == loadPolicySection(self_remediate, data)
         IN loadSections(self_remediate,
                         IF pol[tech].defined THEN [pol EXCEPT ![tech] = loaded]
                         ELSE [pol EXCEPT ![tech] = loaded, !["general"] = loaded],
                         i + 1)

\* Policy.loadPolicy(policy)
loadPolicy(self, doc) ==
    LET general0 == IF Truthy(doc["general"]) THEN doc["general"] ELSE EmptyDict
        general == IF general0.level = ""
                   THEN [general0 EXCEPT !.level = LabelLower(self.risk_level)]
                   ELSE general0
        self_remediate == IF general.has_remediate /\ general.remediate # <<>>
                          THEN [given |-> TRUE, table |-> general.remediate]
                          ELSE self.remediate
        start == [n \in SectionNames |-> IF n = "general" THEN general ELSE doc[n]]
    IN [self EXCEPT !.remediate = self_remediate,
                    !.policy = loadSections(self_remediate, start, 1)]

\* Policy.__init__(severity) without repository and path
Policy_init(severity) ==
    [risk_level |-> severity,
     severities |-> _buildSeverityList(severity).value,
     policy |-> [n \in SectionNames |-> NoSection],
     remediate |-> [given |-> FALSE, table |-> <<>>]]

\* ------------------------------------------- inputs of the legacy Policy
RiskLevels == {"error", "High"}

RemediateTables ==
    {<<>>, <<Item("error", 1)>>, <<Item("error", 5)>>, <<Item("high", 7)>>, <<Item("high", 0)>>,
     <<Item("low", 7), Item("error", 1)>>, <<Item("error", 1), Item("low", 7)>>,
     <<Item("critical", 7), Item("error", 1)>>, <<Item("all", 5)>>}

GeneralSections ==
    {NoSection,
     Section("", TRUE, <<Item("error", 1)>>, NoBlock, NoBlock),
     Section("", TRUE, <<>>, NoBlock, NoBlock),
     Section("high", FALSE, <<>>, NoBlock, NoBlock),
     Section("warning", TRUE, <<Item("low", 7), Item("error", 1)>>, NoBlock, NoBlock)}

CodeScanningSections == {NoSection, Section("error", FALSE, <<>>, NoBlock, NoBlock)}

DependabotSections ==
    {NoSection,
     Section("critical", FALSE, <<>>, NoBlock, NoBlock),
     Section("high", TRUE, <<Item("high", 7)>>, NoBlock, NoBlock),
     Section("", TRUE, <<Item("error", 1)>>, NoBlock, NoBlock),
     Section("error", FALSE, <<>>, [names |-> <<str_a_star>>, ids |-> <<>>],
             [names |-> <<str_aws>>, ids |-> <<>>]),
     Section("critical", FALSE, <<>>, [names |-> <<str_azure>>, ids |-> <<str_py_star>>],
             [names |-> <<str_AWS>>, ids |-> <<str_aws>>])}

SecretScanningSections == {NoSection, EmptyDict}

\* the policy dicts handed to loadPolicy
PolicyDocs ==
    {[n \in SectionNames |->
        CASE n = "general" -> g
          [] n = "codescanning" -> c
          [] n = "dependabot" -> d
          [] OTHER -> s] :
     g \in GeneralSections, c \in CodeScanningSections, d \in DependabotSections,
     s \in SecretScanningSections}

\* datetime.datetime.now().date()
NowDays == {10}

\* creation times: 10, 7, 5, 2 days and 1 day ago, today, tomorrow, and None
CreationTimes == {NoTime} \cup {At(d) : d \in {0, 3, 5, 8, 9, 10, 11}}

AlertSeverities == {"critical", "high", "error", "warning", "bogus"}

\* no call of the legacy Policy is pending
NoRequest == [op |-> "none", args |-> <<>>]

\* ------------------------------------------- Summary and pull-request comment
\* Summary.summary is a string the run appends to; the model keeps the pieces
\* appended, in order
Token(kind, id) == [kind |-> kind, id |-> id]

\* PullRequest.__COMMENT_MARKER__.format(id=policy_name)
COMMENT_MARKER(id) == Token("marker", id)

\* a comment of the pull request as getPullRequestComments() returns it
Comment(id, body) == [id |-> id, body |-> body]

\* PullRequest.findComment(comment_body_includes), from the i-th comment on:
\* the id of the first comment whose body holds the string, 0 for None
RECURSIVE findComment(_, _, _)
findComment(comments, comment_body_includes, i) ==
    IF i > Len(comments) THEN 0
    ELSE IF comment_body_includes \in Range(comments[i].body) THEN comments[i].id
    ELSE findComment(comments, comment_body_includes, i + 1)

\* the id the platform gives to a new comment: above every id in use
RECURSIVE NewCommentId(_, _)
NewCommentId(comments, i) ==
    IF i > Len(comments) THEN 1
    ELSE LET rest == NewCommentId(comments, i + 1)
         IN IF comments[i].id >= rest THEN comments[i].id + 1 ELSE rest

\* GitHub.repository.createPullRequestComment(comment_body)
createPullRequestComment(comments, comment_body) ==
    Append(comments, Comment(NewCommentId(comments, 1), comment_body))

\* GitHub.repository.updatePullRequestComment(comment_id, comment_body)
updatePullRequestComment(comments, comment_id, comment_body) ==
    [i \in DOMAIN comments |->
        IF comments[i].id = comment_id THEN Comment(comment_id, comment_body) ELSE comments[i]]

\* what one call of addPrComment leaves: the comments, Summary.summary and the
\* requests it sent
PrResult(comments, summary, reads, creates, updates) ==
    [comments |-> comments, summary |-> summary,
     reads |-> reads, creates |-> creates, updates |-> updates]

\* addPrComment that creates whenever the platform lists no comment first
addPrComment_createAlways(pr, summary, policy_name, fails) ==
    IF ~pr.add_pr_comment THEN PrResult(pr.comments, summary, 0, 0, 0)
    ELSE IF ~pr.in_pr THEN PrResult(pr.comments, summary, 0, 0, 0)
    ELSE LET name == IF policy_name # "" THEN policy_name ELSE "Unknown"
             comment_marker == COMMENT_MARKER(name)
             summary1 == Append(summary, comment_marker)
         IN IF fails = "read" THEN PrResult(pr.comments, summary1, 1, 0, 0)
            ELSE PrResult(IF fails = "write" THEN pr.comments
                          ELSE createPullRequestComment(pr.comments, summary1),
                          summary1, 1, 1, 0)

\* PullRequest.addPrComment(policy_name); fails names the request the
\* platform refuses ("none", "read", "write"), which the except clause logs
addPrComment(pr, summary, policy_name, fails) ==
    IF ~pr.add_pr_comment THEN PrResult(pr.comments, summary, 0, 0, 0)
    ELSE IF ~pr.in_pr THEN PrResult(pr.comments, summary, 0, 0, 0)
    ELSE LET name == IF policy_name # "" THEN policy_name ELSE "Unknown"
             comment_marker == COMMENT_MARKER(name)
             summary1 == Append(summary, comment_marker)
             comment_id == findComment(pr.comments, comment_marker, 1)
             summary2 == Append(summary1, Token("raw", "updating"))
         IN IF fails = "read" THEN PrResult(pr.comments, summary1, 1, 0, 0)
            ELSE IF comment_id # 0
            THEN PrResult(IF fails = "write" THEN pr.comments
                          ELSE updatePullRequestComment(pr.comments, comment_id, summary2),
                          summary2, 1, 0, 1)
            ELSE PrResult(IF fails = "write" THEN pr.comments
                          ELSE createPullRequestComment(pr.comments, summary1),
                          summary1, 1, 1, 0)

\* PullRequest before __main__ has set it up, on a pull request without comments
NoPullRequest == [add_pr_comment |-> FALSE, in_pr |-> FALSE, comments |-> <<>>]

\* ------------------------------------------------------------ the CLI run
\* the checks of __main__ in the order of the try block
CliChecks == <<"codescanning", "dependabot", "dependencies", "licensing", "secretscanning">>

\* a run of __main__ at the head of its try block
CliRun(action, debug, disabled, policy_name) ==
    [action |-> action, debug |-> debug, disabled |-> disabled, policy_name |-> policy_name,
     pc |-> "checks", idx |-> 1, errors |-> 0, summary |-> <<>>,
     raised |-> FALSE, logged |-> FALSE, reraise |-> FALSE,
     job_summary |-> <<>>, job_summary_written |-> FALSE,
     pr_comment |-> PrResult(<<>>, <<>>, 0, 0, 0), pr_comment_called |-> FALSE,
     exit_code |-> 0]

\* no run of __main__
NoRun == [CliRun("break", FALSE, {}, "") EXCEPT !.pc = "none"]

\* ------------------------------------------------------------ CodeScanning
\* CodeScanning(repository, retry_count, retry_sleep) with no call in progress
CodeScanning_init(retry_count, retry_sleep) ==
    [retry_count |-> retry_count, retry_sleep |-> retry_sleep, pc |-> "idle",
     reference |-> "none", in_pr |-> FALSE, counter |-> 0, fetches |-> 0, slept |-> 0,
     results |-> <<>>, raised |-> "none"]

\* CodeScanning() with the defaults of __init__
NoScan == CodeScanning_init(1, 15)

\* ------------------------------------------------------------------- Init
\* Checker.__init__: a fresh PolicyState and no severities
Init ==
    /\ os_name \in {"posix", "nt"}
    /\ technology \in {"secretscanning", "supplychain"}
    /\ policy \in IF technology = "secretscanning" THEN SecretPolicies ELSE SupplyPolicies
    /\ github \in [isEnabled : BOOLEAN, isSubFeatureEnabled : BOOLEAN]
    /\ state = PolicyState_reset
    /\ severities = <<>>
    /\ pc = "idle"
    /\ alerts = <<>>
    /\ pidx = 1
    /\ todo = <<>>
    /\ last = Call("init", NoRule, NoAlert, PolicyState_reset, <<>>, Ok(<<>>))
    /\ legacy = Policy_init("error")
    /\ recorded = PolicyState_reset
    /\ request = NoRequest
    /\ cli = NoRun
    /\ pullrequest = NoPullRequest
    /\ codescanning = NoScan
    /\ evaluated = {}

\* ---------------------------------------------------------------- actions
\* check(): alerts = self.getAlerts()
CheckBegin ==
    /\ pc \in {"idle", "done"}
    /\ \E as \in (IF technology = "secretscanning" THEN SecretAlertLists ELSE DependencyAlertLists) :
          /\ TotalDecisions(state) + Len(policy) * (1 + Len(as)) <= MaxDecisions
          /\ alerts' = as
    /\ pidx' = 1
    /\ todo' = <<>>
    /\ pc' = "policy"
    /\ last' = Call("check", NoRule, NoAlert, state, <<>>, Ok(<<>>))
    /\ evaluated' = {}
    /\ UNCHANGED <<cliVars, legacy, recorded, request, os_name, technology, policy, github, state, severities>>

\* one evaluation of check(): the rule before and after it, the alert and
\* the decision added to the state, its kind and trigger label, "none" when
\* nothing was added
Evaluation(rule, rule_after, alert, before, after) ==
    [rule |-> rule, rule_after |-> rule_after, alert |-> alert,
     decision |->
         IF after = before THEN [kind |-> "none", trigger |-> "none"]
         ELSE LET k == CHOOSE kind \in {"criticals", "errors", "warnings", "ignored"} :
                           Len(after[kind]) > Len(before[kind])
              IN [kind |-> k, trigger |-> after[k][Len(after[k])].trigger]]

\* where check() goes once the alerts left for policy[i] are td
AfterAlerts(td, i) ==
    IF td # <<>> THEN [pc |-> "alerts", pidx |-> i]
    ELSE IF i < Len(policy) THEN [pc |-> "policy", pidx |-> i + 1]
    ELSE [pc |-> "done", pidx |-> i]

\* the head of the loop body with the warning flag tested by if, not elif
SecretScanningCheckPolicy_bothFlags ==
    /\ technology = "secretscanning"
    /\ pc = "policy"
    /\ LET rule == policy[pidx]
           errored == IF rule.push_protection /\ ~github.isSubFeatureEnabled
                      THEN PolicyState_error(state,
                                             <<"Secret Scanning Push Protection is disabled">>,
                                             "enabled")
                      ELSE state
       IN IF rule.enabled /\ ~github.isEnabled
          THEN /\ state' = PolicyState_critical(state, <<"Secret Scanning is not enabled">>, "na")
               /\ pc' = "done"
               /\ UNCHANGED <<pidx, todo>>
          ELSE /\ state' =
                    IF rule.push_protection_warning /\ ~github.isSubFeatureEnabled
                    THEN PolicyState_warning(errored,
                                             <<"Secret Scanning Push Protection is disabled">>,
                                             "enabled-warning")
                    ELSE errored
               /\ todo' = alerts
               /\ pc' = AfterAlerts(alerts, pidx).pc
               /\ pidx' = AfterAlerts(alerts, pidx).pidx
    /\ last' = Call("checkPolicy", policy[pidx], NoAlert, state, <<>>, Ok(<<>>))
    /\ UNCHANGED <<cliVars, legacy, recorded, request, os_name, technology, policy, github, severities, alerts,
                   evaluated>>

\* the head of the loop body without the return after the critical
SecretScanningCheckPolicy_noReturn ==
    /\ technology = "secretscanning"
    /\ pc = "policy"
    /\ LET rule == policy[pidx]
           gated == IF rule.enabled /\ ~github.isEnabled
                    THEN PolicyState_critical(state, <<"Secret Scanning is not enabled">>, "na")
                    ELSE state
       IN /\ state' =
               IF rule.push_protection /\ ~github.isSubFeatureEnabled
               THEN PolicyState_error(gated, <<"Secret Scanning Push Protection is disabled">>,
                                      "enabled")
               ELSE IF rule.push_protection_warning /\ ~github.isSubFeatureEnabled
               THEN PolicyState_warning(gated, <<"Secret Scanning Push Protection is disabled">>,
                                        "enabled-warning")
               ELSE gated
          /\ todo' = alerts
          /\ pc' = AfterAlerts(alerts, pidx).pc
          /\ pidx' = AfterAlerts(alerts, pidx).pidx
    /\ last' = Call("checkPolicy", policy[pidx], NoAlert, state, <<>>, Ok(<<>>))
    /\ UNCHANGED <<cliVars, legacy, recorded, request, os_name, technology, policy, github, severities, alerts,
                   evaluated>>

\* SecretScanningChecker.check(): the head of the loop body for one rule
SecretScanningCheckPolicy ==
    /\ technology = "secretscanning"
    /\ pc = "policy"
    /\ LET rule == policy[pidx] IN
       IF rule.enabled /\ ~github.isEnabled
       THEN /\ state' = PolicyState_critical(state, <<"Secret Scanning is not enabled">>, "na")
            /\ pc' = "done"
            /\ UNCHANGED <<pidx, todo>>
       ELSE /\ state' =
                 IF rule.push_protection /\ ~github.isSubFeatureEnabled
                 THEN PolicyState_error(state, <<"Secret Scanning Push Protection is disabled">>, "enabled")
                 ELSE IF rule.push_protection_warning /\ ~github.isSubFeatureEnabled
                 THEN PolicyState_warning(state, <<"Secret Scanning Push Protection is disabled">>,
                                          "enabled-warning")
                 ELSE state
            /\ todo' = alerts
            /\ pc' = AfterAlerts(alerts, pidx).pc
            /\ pidx' = AfterAlerts(alerts, pidx).pidx
    /\ last' = Call("checkPolicy", policy[pidx], NoAlert, state, <<>>, Ok(<<>>))
    /\ UNCHANGED <<cliVars, legacy, recorded, request, os_name, technology, policy, github, severities, alerts,
                   evaluated>>

\* SecretScanningChecker.check(): self.checkSecretScanningAlert(policy, alert)
SecretScanningCheckAlert ==
    /\ technology = "secretscanning"
    /\ pc = "alerts"
    /\ state' = checkSecretScanningAlert(state, policy[pidx], Head(todo), os_name)
    /\ todo' = Tail(todo)
    /\ pc' = AfterAlerts(Tail(todo), pidx).pc
    /\ pidx' = AfterAlerts(Tail(todo), pidx).pidx
    /\ last' = Call("checkSecretScanningAlert", policy[pidx], Head(todo), state, <<>>, Ok(<<>>))
    /\ UNCHANGED <<cliVars, legacy, recorded, request, os_name, technology, policy, github, severities, alerts>>
    /\ evaluated' = evaluated \cup {Evaluation(policy[pidx], policy'[pidx], Head(todo), state, state')}

\* DependabotChecker.check(): the head of the loop body for one rule
DependabotCheckPolicy ==
    /\ technology = "supplychain"
    /\ pc = "policy"
    /\ LET rule == policy[pidx] IN
       IF rule.enabled /\ ~github.isEnabled
       THEN /\ state' = PolicyState_critical(state, <<"Dependabot is not enabled">>, "na")
            /\ pc' = "done"
            /\ UNCHANGED <<pidx, todo, severities>>
       ELSE /\ state' =
                 IF rule.security_updates /\ ~github.isSubFeatureEnabled
                 THEN PolicyState_error(state, <<"Dependabot Security Updates is not enabled">>, "na")
                 ELSE state
            /\ severities' = getSeveritiesFromName(rule.severity, "higher").value
            /\ todo' = alerts
            /\ pc' = AfterAlerts(alerts, pidx).pc
            /\ pidx' = AfterAlerts(alerts, pidx).pidx
    /\ last' = Call("checkPolicy", policy[pidx], NoAlert, state, <<>>, Ok(<<>>))
    /\ UNCHANGED <<cliVars, legacy, recorded, request, os_name, technology, policy, github, alerts, evaluated>>

\* DependabotChecker.check(): self.checkSupplyChainAlert(policy, alert)
DependabotCheckAlert ==
    /\ technology = "supplychain"
    /\ pc = "alerts"
    /\ state' = checkSupplyChainAlert(state, severities, policy[pidx], Head(todo))
    /\ todo' = Tail(todo)
    /\ pc' = AfterAlerts(Tail(todo), pidx).pc
    /\ pidx' = AfterAlerts(Tail(todo), pidx).pidx
    /\ last' = Call("checkSupplyChainAlert", policy[pidx], Head(todo), state, <<>>, Ok(<<>>))
    /\ UNCHANGED <<cliVars, legacy, recorded, request, os_name, technology, policy, github, severities, alerts>>
    /\ evaluated' = evaluated \cup {Evaluation(policy[pidx], policy'[pidx], Head(todo), state, state')}

\* PolicyState.reset(), between two runs
Reset ==
    /\ pc \in {"idle", "done"}
    /\ state # PolicyState_reset
    /\ state' = PolicyState_doReset(state)
    /\ pc' = "idle"
    /\ last' = Call("reset", NoRule, NoAlert, state, <<>>, Ok(<<>>))
    /\ UNCHANGED <<cliVars, legacy, recorded, request, os_name, technology, policy, github, severities, alerts,
                   pidx, todo, evaluated>>

Next ==
    \/ CheckBegin
    \/ SecretScanningCheckPolicy
    \/ SecretScanningCheckAlert
    \/ DependabotCheckPolicy
    \/ DependabotCheckAlert
    \/ Reset

Spec == Init /\ [][Next]_vars

\* ------------------------------------------------ calls of the pure helpers
\* labels handed to the severity helpers: the taxonomy, other spellings, unknown ones
ThresholdLabels ==
    SeverityLevelEnum \cup {"HIGH", "High", "Error", "ERRORS", "ALL", "None", "Bogus", "bogus",
                            "unknown", ""}

Candidates == {str_aws, str_AWS, str_azure, str_py_sqli, str_PY_SQLI}

ValidatorLists ==
    {<<>>, <<str_aws>>, <<str_AWS>>, <<str_a_star>>, <<str_a_q_s>>, <<str_py_star>>,
     <<str_Aws_star>>, <<str_star>>, <<str_azure, str_aws>>, <<str_py_sqli, str_a_star>>}

InitHelpers ==
    /\ os_name \in {"posix", "nt"}
    /\ technology = "secretscanning"
    /\ policy = <<SecretScanningPolicy>>
    /\ github = [isEnabled |-> TRUE, isSubFeatureEnabled |-> TRUE]
    /\ state = PolicyState_reset
    /\ severities = <<>>
    /\ pc = "idle"
    /\ alerts = <<>>
    /\ pidx = 1
    /\ todo = <<>>
    /\ last = Call("init", NoRule, NoAlert, PolicyState_reset, <<>>, Ok(<<>>))
    /\ legacy = Policy_init("error")
    /\ recorded = PolicyState_reset
    /\ request = NoRequest
    /\ cli = NoRun
    /\ pullrequest = NoPullRequest
    /\ codescanning = NoScan
    /\ evaluated = {}

\* SeverityLevelEnum.getSeveritiesFromName(severity, grouping) is called
CallGetSeveritiesFromName ==
    /\ \E sev \in ThresholdLabels, grouping \in {"higher", "lower"} :
          last' = Call("getSeveritiesFromName", NoRule, NoAlert, state, <<sev, grouping>>,
                       getSeveritiesFromName(sev, grouping))
    /\ UNCHANGED <<cliVars, legacy, recorded, request, os_name, technology, policy, github, state,
                   severities, pc, alerts, pidx, todo, evaluated>>

\* Policy._buildSeverityList(severity) is called
CallBuildSeverityList ==
    /\ \E sev \in ThresholdLabels :
          last' = Call("_buildSeverityList", NoRule, NoAlert, state, <<sev>>, _buildSeverityList(sev))
    /\ UNCHANGED <<cliVars, legacy, recorded, request, os_name, technology, policy, github, state,
                   severities, pc, alerts, pidx, todo, evaluated>>

\* Checker.matchContent(name, validators) is called
CallMatchContent ==
    /\ \E name \in Candidates, validators \in ValidatorLists :
          last' = Call("matchContent", NoRule, NoAlert, state, <<name, validators>>,
                       Ok(matchContent(name, validators, os_name)))
    /\ UNCHANGED <<cliVars, legacy, recorded, request, os_name, technology, policy, github, state,
                   severities, pc, alerts, pidx, todo, evaluated>>

NextHelpers ==
    \/ CallGetSeveritiesFromName
    \/ CallBuildSeverityList
    \/ CallMatchContent

SpecHelpers == InitHelpers /\ [][NextHelpers]_vars

\* ------------------------------------------- calls of the legacy Policy
\* the state of the checkers, which the legacy Policy does not touch
checkerVars ==
    <<os_name, technology, policy, github, state, severities, pc, alerts, pidx, todo, evaluated>>

CallSeverities == {"critical", "error", "Error", "warning"}
CallTechnologies == {"codescanning", "dependabot", ""}
CallNames == {<<>>, <<str_aws>>}
CallIds == {<<>>, <<str_py_sqli>>}
CallCreationTimes == {NoTime, At(5), At(10)}

\* the arguments of the direct calls of checkViolationAgainstPolicy
AgainstSeverities == {"critical", "error", "bogus"}
AgainstNames == {<<>>, <<str_aws>>, <<str_azure, str_aws>>, <<str_aws, str_azure>>}
AgainstIds == {<<>>, <<str_PY_SQLI>>, <<str_aws>>}

\* the calls a run makes: checkViolationRemediation(severity, remediate,
\* creation_time) or checkViolation(severity, technology, names, ids,
\* creation_time), each with the date now() gives it
Requests ==
    {[op |-> "checkViolationRemediation", args |-> <<severity, remediate, creation_time, now>>] :
        severity \in AlertSeverities, remediate \in RemediateTables,
        creation_time \in CreationTimes, now \in NowDays}
    \cup
    {[op |-> "checkViolation", args |-> <<severity, tech, names, ids, creation_time, now>>] :
        severity \in CallSeverities, tech \in CallTechnologies, names \in CallNames,
        ids \in CallIds, creation_time \in CallCreationTimes, now \in NowDays}
    \cup
    {[op |-> "checkViolationAgainstPolicy", args |-> <<severity, tech, names, ids>>] :
        severity \in AgainstSeverities, tech \in CallTechnologies, names \in AgainstNames,
        ids \in AgainstIds}

InitLegacy ==
    /\ os_name \in {"posix", "nt"}
    /\ technology = "secretscanning"
    /\ policy = <<SecretScanningPolicy>>
    /\ github = [isEnabled |-> TRUE, isSubFeatureEnabled |-> TRUE]
    /\ state = PolicyState_reset
    /\ severities = <<>>
    /\ pc = "idle"
    /\ alerts = <<>>
    /\ pidx = 1
    /\ todo = <<>>
    /\ last = Call("init", NoRule, NoAlert, PolicyState_reset, <<>>, Ok(<<>>))
    /\ legacy \in {Policy_init(severity) : severity \in RiskLevels}
    /\ recorded = PolicyState_reset
    /\ request \in Requests
    /\ cli = NoRun
    /\ pullrequest = NoPullRequest
    /\ codescanning = NoScan
    /\ evaluated = {}

\* Policy.loadPolicy(policy), once per Policy object
LoadPolicy ==
    /\ ~PolicyLoaded(legacy.policy)
    /\ \E doc \in PolicyDocs :
          /\ legacy' = loadPolicy(legacy, doc)
          /\ last' = Call("loadPolicy", NoRule, NoAlert, state, <<doc>>, Ok(<<>>))
    /\ UNCHANGED <<cliVars, checkerVars, recorded, request>>

\* Policy.checkViolationRemediation(severity, remediate, creation_time) is called
CallCheckViolationRemediation ==
    /\ request.op = "checkViolationRemediation"
    /\ last' = Call("checkViolationRemediation", NoRule, NoAlert, state, request.args,
                    checkViolationRemediation(request.args[1], request.args[2],
                                              request.args[3], request.args[4]))
    /\ UNCHANGED <<cliVars, checkerVars, legacy, recorded, request>>

\* Policy.checkViolation(severity, technology, names, ids, creation_time) is called
CallCheckViolation ==
    /\ request.op = "checkViolation"
    /\ last' = Call("checkViolation", NoRule, NoAlert, state, request.args,
                    checkViolation(legacy, request.args[1], request.args[2], request.args[3],
                                   request.args[4], request.args[5], request.args[6], os_name))
    /\ UNCHANGED <<cliVars, checkerVars, legacy, recorded, request>>

\* checkViolationAgainstPolicy(severity, technology, names, ids) is called
CallCheckViolationAgainstPolicy ==
    /\ request.op = "checkViolationAgainstPolicy"
    /\ last' = Call("checkViolationAgainstPolicy", NoRule, NoAlert, state, request.args,
                    OkB(checkViolationAgainstPolicy(legacy, request.args[1], request.args[2],
                                                    request.args[3], request.args[4], os_name)))
    /\ UNCHANGED <<cliVars, checkerVars, legacy, recorded, request>>

NextLegacy ==
    \/ LoadPolicy
    \/ CallCheckViolationRemediation
    \/ CallCheckViolation
    \/ CallCheckViolationAgainstPolicy

SpecLegacy == InitLegacy /\ [][NextLegacy]_vars

\* ------------------------------------------------- calls of PolicyState
\* most decisions handed to a PolicyState between two resets
MaxRecorded == 8

DecisionData == {<<"alert">>, <<"Dependabot is not enabled">>}

\* the aggregate count of a PolicyState: len(criticals) + len(errors)
totalViolations(st) == Len(st.criticals) + Len(st.errors)

InitState ==
    /\ os_name = "posix"
    /\ technology = "secretscanning"
    /\ policy = <<SecretScanningPolicy>>
    /\ github = [isEnabled |-> TRUE, isSubFeatureEnabled |-> TRUE]
    /\ state = PolicyState_reset
    /\ severities = <<>>
    /\ pc = "idle"
    /\ alerts = <<>>
    /\ pidx = 1
    /\ todo = <<>>
    /\ last = Call("init", NoRule, NoAlert, PolicyState_reset, <<>>, Ok(<<>>))
    /\ legacy = Policy_init("error")
    /\ recorded = PolicyState_reset
    /\ request = NoRequest
    /\ cli = NoRun
    /\ pullrequest = NoPullRequest
    /\ codescanning = NoScan
    /\ evaluated = {}

\* what is left alone by the methods of PolicyState
stateFrame ==
    <<os_name, technology, policy, github, severities, pc, alerts, pidx, todo, legacy, request,
      cliVars, evaluated>>

\* PolicyState.critical(data, trigger_name) is called
RecordCritical ==
    /\ TotalDecisions(state) < MaxRecorded
    /\ \E data \in DecisionData :
          /\ state' = PolicyState_critical(state, data, "na")
          /\ recorded' = [recorded EXCEPT !.criticals = Append(@, [msg |-> data, trigger |-> "na"])]
          /\ last' = Call("critical", NoRule, NoAlert, state, <<data, "na">>, Ok(<<>>))
    /\ UNCHANGED stateFrame

\* PolicyState.error(data, trigger_name) is called
RecordError ==
    /\ TotalDecisions(state) < MaxRecorded
    /\ \E data \in DecisionData :
          /\ state' = PolicyState_error(state, data, "na")
          /\ recorded' = [recorded EXCEPT !.errors = Append(@, [msg |-> data, trigger |-> "na"])]
          /\ last' = Call("error", NoRule, NoAlert, state, <<data, "na">>, Ok(<<>>))
    /\ UNCHANGED stateFrame

\* PolicyState.warning(data, trigger_name) is called
RecordWarning ==
    /\ TotalDecisions(state) < MaxRecorded
    /\ \E data \in DecisionData :
          /\ state' = PolicyState_warning(state, data, "na")
          /\ recorded' = [recorded EXCEPT !.warnings = Append(@, [msg |-> data, trigger |-> "na"])]
          /\ last' = Call("warning", NoRule, NoAlert, state, <<data, "na">>, Ok(<<>>))
    /\ UNCHANGED stateFrame

\* PolicyState.ignore(data, trigger_name) is called
RecordIgnore ==
    /\ TotalDecisions(state) < MaxRecorded
    /\ \E data \in DecisionData :
          /\ state' = PolicyState_ignore(state, data, "na")
          /\ recorded' = [recorded EXCEPT !.ignored = Append(@, [msg |-> data, trigger |-> "na"])]
          /\ last' = Call("ignore", NoRule, NoAlert, state, <<data, "na">>, Ok(<<>>))
    /\ UNCHANGED stateFrame

\* PolicyState.reset() is called
StateReset ==
    /\ state' = PolicyState_doReset(state)
    /\ recorded' = PolicyState_reset
    /\ last' = Call("reset", NoRule, NoAlert, state, <<>>, Ok(<<>>))
    /\ UNCHANGED stateFrame

NextState ==
    \/ RecordCritical
    \/ RecordError
    \/ RecordWarning
    \/ RecordIgnore
    \/ StateReset

SpecState == InitState /\ [][NextState]_vars

\* --------------------------------------- specification of the CLI run
\* the arguments of a run
CliActions == {"break", "continue", "report"}
DisabledSets == {{}, {1}, {2, 3, 4}, {1, 2, 3, 4, 5}}
CliPolicyNames == {"", "p"}

\* what a check may return: its count of unacceptable alerts
CheckCounts == {0, 1, 2}

\* the requests of addPrComment the platform may refuse
PrFailures == {"none", "read", "write"}

\* the comments a pull request may hold when a run starts: none, one of
\* somebody else, the one an earlier run left
InitialComments ==
    {<<>>,
     <<Comment(7, <<Token("text", "lgtm")>>)>>,
     <<Comment(7, <<Token("section", "codescanning"), COMMENT_MARKER("Unknown")>>)>>}

InitCli ==
    /\ os_name = "posix"
    /\ technology = "secretscanning"
    /\ policy = <<SecretScanningPolicy>>
    /\ github = [isEnabled |-> TRUE, isSubFeatureEnabled |-> TRUE]
    /\ state = PolicyState_reset
    /\ severities = <<>>
    /\ pc = "idle"
    /\ alerts = <<>>
    /\ pidx = 1
    /\ todo = <<>>
    /\ last = Call("init", NoRule, NoAlert, PolicyState_reset, <<>>, Ok(<<>>))
    /\ legacy = Policy_init("error")
    /\ recorded = PolicyState_reset
    /\ request = NoRequest
    /\ cli \in {CliRun(action, debug, disabled, policy_name) :
                   action \in CliActions, debug \in BOOLEAN,
                   disabled \in DisabledSets, policy_name \in CliPolicyNames}
    /\ pullrequest \in [add_pr_comment : BOOLEAN, in_pr : BOOLEAN, comments : InitialComments]
    /\ codescanning = NoScan
    /\ evaluated = {}

\* what a run of __main__ leaves alone
cliFrame == <<checkerVars, last, legacy, recorded, request, codescanning>>

\* where the try block stands after the check at idx
AfterCheck(idx) == IF idx = Len(CliChecks) THEN "finally" ELSE "checks"

\* `if not arguments.disable_...` is false: the check is skipped
CliSkipCheck ==
    /\ cli.pc = "checks"
    /\ cli.idx \in cli.disabled
    /\ cli' = [cli EXCEPT !.idx = @ + 1, !.pc = AfterCheck(cli.idx)]
    /\ UNCHANGED <<cliFrame, pullrequest>>

\* `errors += checks.check...()`: the check returns its count
CliCheckReturns ==
    /\ cli.pc = "checks"
    /\ cli.idx \notin cli.disabled
    /\ \E n \in CheckCounts :
          cli' = [cli EXCEPT !.errors = @ + n,
                             !.summary = Append(@, Token("section", CliChecks[cli.idx])),
                             !.idx = @ + 1, !.pc = AfterCheck(cli.idx)]
    /\ UNCHANGED <<cliFrame, pullrequest>>

\* the check raises: the except clause logs the exception and adds it to
\* the Summary, and in debug mode raises it again
CliCheckRaises ==
    /\ cli.pc = "checks"
    /\ cli.idx \notin cli.disabled
    /\ cli' = [cli EXCEPT !.raised = TRUE, !.logged = TRUE,
                          !.summary = Append(@, Token("header", "Error Encountered")),
                          !.reraise = cli.debug, !.pc = "finally"]
    /\ UNCHANGED <<cliFrame, pullrequest>>

\* the finally clause: Summary.outputJobSummary() and
\* PullRequest.addPrComment(policy.name); then a pending exception leaves
\* the process
CliFinally ==
    /\ cli.pc = "finally"
    /\ \E fails \in PrFailures, file \in BOOLEAN :
          LET r == addPrComment(pullrequest, cli.summary, cli.policy_name, fails)
          IN /\ cli' = [cli EXCEPT !.job_summary = IF file THEN cli.summary ELSE <<>>,
                                   !.job_summary_written = file,
                                   !.pr_comment = r, !.pr_comment_called = TRUE,
                                   !.summary = r.summary,
                                   !.pc = IF cli.reraise THEN "exited" ELSE "exit",
                                   !.exit_code = IF cli.reraise THEN 1 ELSE 0]
             /\ pullrequest' = [pullrequest EXCEPT !.comments = r.comments]
    /\ UNCHANGED cliFrame

\* the exit decision with every action breaking on errors
CliExit_anyAction ==
    /\ cli.pc = "exit"
    /\ cli' = [cli EXCEPT !.pc = "exited",
                          !.exit_code = IF cli.errors > 0 THEN 1 ELSE 0]
    /\ UNCHANGED <<cliFrame, pullrequest>>

\* the exit decision below the try statement
CliExit ==
    /\ cli.pc = "exit"
    /\ cli' = [cli EXCEPT !.pc = "exited",
                          !.exit_code = IF cli.action = "break" /\ cli.errors > 0 THEN 1 ELSE 0]
    /\ UNCHANGED <<cliFrame, pullrequest>>

NextCli ==
    \/ CliSkipCheck
    \/ CliCheckReturns
    \/ CliCheckRaises
    \/ CliFinally
    \/ CliExit

SpecCli == InitCli /\ [][NextCli]_vars

\* ------------------------------ specification of the pull-request comment
\* Most comments a pull request may hold: a comment is added only while
\* they still fit.
MaxComments == 3

PrPolicyNames == {"", "Unknown", "p"}
PrSummaries == {<<>>, <<Token("section", "codescanning")>>}

InitPr ==
    /\ os_name = "posix"
    /\ technology = "secretscanning"
    /\ policy = <<SecretScanningPolicy>>
    /\ github = [isEnabled |-> TRUE, isSubFeatureEnabled |-> TRUE]
    /\ state = PolicyState_reset
    /\ severities = <<>>
    /\ pc = "idle"
    /\ alerts = <<>>
    /\ pidx = 1
    /\ todo = <<>>
    /\ last = Call("init", NoRule, NoAlert, <<>>, <<>>, PrResult(<<>>, <<>>, 0, 0, 0))
    /\ legacy = Policy_init("error")
    /\ recorded = PolicyState_reset
    /\ request = NoRequest
    /\ cli = NoRun
    /\ pullrequest = NoPullRequest
    /\ codescanning = NoScan
    /\ evaluated = {}

\* what addPrComment leaves alone
prFrame == <<checkerVars, legacy, recorded, request, cli, codescanning>>

\* one run calls PullRequest.addPrComment(policy_name) at its end
CallAddPrComment ==
    /\ Len(pullrequest.comments) < MaxComments
    /\ \E policy_name \in PrPolicyNames, summary \in PrSummaries, fails \in PrFailures,
          add_pr_comment \in BOOLEAN, in_pr \in BOOLEAN :
          LET pr == [add_pr_comment |-> add_pr_comment, in_pr |-> in_pr,
                     comments |-> pullrequest.comments]
              r == addPrComment(pr, summary, policy_name, fails)
          IN /\ pullrequest' = [pr EXCEPT !.comments = r.comments]
             /\ last' = Call("addPrComment", NoRule, NoAlert, pullrequest.comments,
                             [policy_name |-> policy_name, fails |-> fails], r)
    /\ UNCHANGED prFrame

\* somebody else comments on the pull request
OtherComment ==
    /\ Len(pullrequest.comments) < MaxComments
    /\ pullrequest' = [pullrequest EXCEPT !.comments =
                          Append(@, Comment(NewCommentId(@, 1), <<Token("text", "lgtm")>>))]
    /\ last' = Call("comment", NoRule, NoAlert, pullrequest.comments, <<>>,
                    PrResult(<<>>, <<>>, 0, 0, 0))
    /\ UNCHANGED prFrame

NextPr ==
    \/ CallAddPrComment
    \/ OtherComment

SpecPr == InitPr /\ [][NextPr]_vars

\* ------------------------------------------------- Policy and PolicyV3
\* CodeScanningPolicy(): the default-constructed rule
CodeScanningPolicy ==
    [enabled |-> TRUE, name |-> "CodeScanningPolicy", severity |-> "error", ids |-> <<>>]

\* clss(): the default-constructed rule of a rule class
DefaultRule(clss) ==
    CASE clss = "CodeScanningPolicy" -> CodeScanningPolicy
      [] clss = "SupplyChainPolicy" -> SupplyChainPolicy
      [] clss = "SecretScanningPolicy" -> SecretScanningPolicy

\* an element of a rule list: a rule object, or a dict of which `given` are
\* the keys as written and `fields` their values
RuleObject(rule) == [isobj |-> TRUE, given |-> {}, fields |-> rule]
RuleDict(given, fields) == [isobj |-> FALSE, given |-> given, fields |-> fields]

\* the value of a rule field of Policy: None, a dict, a list
NoneValue == [kind |-> "none", elems |-> <<>>]
DictValue(d) == [kind |-> "dict", elems |-> <<d>>]
ListValue(elems) == [kind |-> "list", elems |-> elems]

\* key.replace("-", "_") on the keys the model uses
KeyReplace(key) ==
    CASE key = "push-protection" -> "push_protection"
      [] key = "security-updates" -> "security_updates"
      [] OTHER -> key

\* SeverityLevelEnum.load(data): the member named data.upper(), by its
\* value; "KeyError" when there is none
SeverityLevelEnum_load(data) ==
    IF LabelLower(data) \in SeverityLevelEnum THEN LabelLower(data) ELSE "KeyError"

\* loadDict(clss, data): the object itself, or clss(**modified_dict) with
\* the __post_init__ of the rule classes
loadDict(clss, data) ==
    IF data.isobj THEN data
    ELSE LET modified == {KeyReplace(key) : key \in data.given}
             rule == [f \in DOMAIN DefaultRule(clss) |->
                         IF f \in modified THEN data.fields[f] ELSE DefaultRule(clss)[f]]
         IN RuleObject(IF "severity" \in modified
                       THEN [rule EXCEPT !.severity = SeverityLevelEnum_load(@)]
                       ELSE rule)

\* loadDictList(clss, data)
loadDictList(clss, data) == [i \in DOMAIN data |-> loadDict(clss, data[i])]

\* the loading of one rule field with an empty list left empty
loadRules_keepsEmpty(clss, value) ==
    IF value.kind = "dict" THEN ListValue(<<loadDict(clss, value.elems[1])>>)
    ELSE IF value.kind = "list"
         THEN ListValue(loadDictList(clss, value.elems))
    ELSE value

\* the loading of one rule field in __post_init__ of Policy and PolicyV3
loadRules(clss, value) ==
    IF value.kind = "dict" THEN ListValue(<<loadDict(clss, value.elems[1])>>)
    ELSE IF value.kind = "list"
         THEN IF Len(value.elems) # 0 THEN ListValue(loadDictList(clss, value.elems))
              ELSE ListValue(Append(value.elems, RuleObject(DefaultRule(clss))))
    ELSE value

\* a severity of the loaded rules has no member
KeyErrorIn(value) ==
    \E i \in DOMAIN value.elems : value.elems[i].fields.severity = "KeyError"

\* Policy.__post_init__
Policy_post_init(self) ==
    LET loaded == [self EXCEPT
                      !.codescanning = loadRules("CodeScanningPolicy", @),
                      !.supplychain = loadRules("SupplyChainPolicy", @),
                      !.secretscanning = loadRules("SecretScanningPolicy", @)]
    IN IF KeyErrorIn(loaded.codescanning) \/ KeyErrorIn(loaded.supplychain)
          \/ KeyErrorIn(loaded.secretscanning)
       THEN [raised |-> "KeyError", value |-> self]
       ELSE [raised |-> "none", value |-> loaded]

\* PolicyV3.__post_init__, with threat models that are ThreatModel objects
PolicyV3_post_init(self) ==
    LET loaded == [self EXCEPT
                      !.codescanning = loadRules("CodeScanningPolicy", @),
                      !.supplychain = loadRules("SupplyChainPolicy", @),
                      !.secretscanning = loadRules("SecretScanningPolicy", @)]
    IN IF KeyErrorIn(loaded.codescanning) \/ KeyErrorIn(loaded.supplychain)
          \/ KeyErrorIn(loaded.secretscanning)
       THEN [raised |-> "KeyError", value |-> self]
       ELSE [raised |-> "none", value |-> loaded]

\* Policy(name, codescanning, supplychain, secretscanning) before __post_init__
PolicyFields(name, cs, sc, ss) ==
    [loaded |-> TRUE, name |-> name, threatmodels |-> <<>>, codescanning |-> cs,
     supplychain |-> sc, secretscanning |-> ss]

\* ThreatModel.policy is None
NoPolicy ==
    [loaded |-> FALSE, name |-> "", threatmodels |-> <<>>, codescanning |-> NoneValue,
     supplychain |-> NoneValue, secretscanning |-> NoneValue]

\* f"{repository.owner}/{repository.repo}"
RepoName(owner, repo) == <<owner, "/", repo>>

\* repository.split("/", 1)[0] of such a name
SplitOwner(repository) == repository[1]

\* ThreatModel(owner, repositories, policy): "" and <<>> stand for None
ThreatModel(owner, repositories, pol) ==
    [owner |-> owner, repositories |-> repositories, policy |-> pol]

\* ThreatModel.matches(repository)
matches(self, repository) ==
    IF self.owner # ""
    THEN self.owner = SplitOwner(repository)
    ELSE self.repositories # <<>> /\ repository \in Range(self.repositories)

\* getPolicy: the loop over self.threatmodels.items() from the i-th on, then
\* the default Policy
RECURSIVE getPolicyFrom(_, _, _)
getPolicyFrom(self, repo, i) ==
    IF i > Len(self.threatmodels)
    THEN Policy_post_init(PolicyFields("default", self.codescanning, self.supplychain,
                                       self.secretscanning)).value
    ELSE LET name == self.threatmodels[i].name
             tm == self.threatmodels[i].tm
         IN IF matches(tm, repo) /\ tm.policy.loaded THEN tm.policy
            ELSE IF name = repo /\ tm.policy.loaded THEN tm.policy
            ELSE getPolicyFrom(self, repo, i + 1)

\* getPolicy that returns the last threat model that matches
getPolicy_lastMatch(self, repository) ==
    LET repo == RepoName(repository.owner, repository.repo)
        hits == {i \in DOMAIN self.threatmodels :
                    /\ self.threatmodels[i].tm.policy.loaded
                    /\ \/ matches(self.threatmodels[i].tm, repo)
                       \/ self.threatmodels[i].name = repo}
    IN IF hits = {} THEN getPolicyFrom(self, repo, 1)
       ELSE self.threatmodels[CHOOSE i \in hits : \A j \in hits : j <= i].tm.policy

\* PolicyV3.getPolicy(repository)
getPolicy(self, repository) ==
    getPolicyFrom(self, RepoName(repository.owner, repository.repo), 1)

\* ------------------------------------- specification of Policy / PolicyV3
\* CodeScanningPolicy(False, name="MyCS")
MyCS == [CodeScanningPolicy EXCEPT !.enabled = FALSE, !.name = "MyCS"]

\* what a policy file or a caller may give for the rule fields
CodeScanningValues ==
    {NoneValue, ListValue(<<>>),
     DictValue(RuleDict({"enabled"}, [CodeScanningPolicy EXCEPT !.enabled = FALSE])),
     ListValue(<<RuleObject(MyCS)>>),
     ListValue(<<RuleObject(MyCS),
                 RuleDict({"severity"}, [CodeScanningPolicy EXCEPT !.severity = "High"])>>)}

SupplyChainValues ==
    {NoneValue, ListValue(<<>>),
     DictValue(RuleDict({"security-updates"},
                        [SupplyChainPolicy EXCEPT !.security_updates = TRUE])),
     ListValue(<<RuleObject([SupplyChainPolicy EXCEPT !.severity = "critical"]),
                 RuleObject(SupplyChainPolicy)>>)}

SecretScanningValues ==
    {NoneValue, ListValue(<<>>),
     DictValue(RuleDict({"push-protection", "severity"},
                        [SecretScanningPolicy EXCEPT !.push_protection = TRUE,
                                                     !.severity = "High"])),
     ListValue(<<RuleObject([SecretScanningPolicy EXCEPT !.severity = "low"])>>),
     ListValue(<<RuleDict({"severity"}, [SecretScanningPolicy EXCEPT !.severity = "Bogus"])>>)}

\* the policy a threat model has loaded
LoadedPolicy(name) ==
    Policy_post_init(PolicyFields(name, ListValue(<<>>), ListValue(<<>>), ListValue(<<>>))).value

\* one item of the threatmodels dict
ThreatModelItem(name, tm) == [name |-> name, tm |-> tm]

ThreatModelItems ==
    {ThreatModelItem(<<"a">>, ThreatModel("rand", <<>>, LoadedPolicy("tm-a"))),
     ThreatModelItem(<<"b">>, ThreatModel("rand", <<>>, NoPolicy)),
     ThreatModelItem(<<"c">>, ThreatModel("", <<RepoName("rand", "repo")>>, LoadedPolicy("tm-c"))),
     ThreatModelItem(<<"d">>, ThreatModel("other", <<RepoName("rand", "repo")>>,
                                          LoadedPolicy("tm-d"))),
     ThreatModelItem(RepoName("rand", "repo"), ThreatModel("", <<>>, LoadedPolicy("tm-e")))}

\* the threatmodels dicts: no item, one, two in either order
ThreatModelDicts ==
    {<<>>} \cup {<<x>> : x \in ThreatModelItems}
    \cup {<<xy[1], xy[2]>> : xy \in {z \in ThreatModelItems \X ThreatModelItems : z[1] # z[2]}}

\* the root policies getPolicy is called on: PolicyV3() and the one of
\* test_get_policy_default
RootFields ==
    {PolicyFields("Policy", ListValue(<<>>), ListValue(<<>>), ListValue(<<>>)),
     PolicyFields("Policy", ListValue(<<RuleObject(MyCS)>>), ListValue(<<>>),
                  ListValue(<<RuleObject([SecretScanningPolicy EXCEPT !.severity = "low"])>>))}

Repositories == {[owner |-> "rand", repo |-> "repo"], [owner |-> "other", repo |-> "x"]}
NoRepository == [owner |-> "", repo |-> ""]

PolicyRequest(op, self, repository) == [op |-> op, self |-> self, repository |-> repository]

PolicyRequests ==
    {PolicyRequest(op, PolicyFields("Policy", cs, sc, ss), NoRepository) :
        op \in {"Policy", "PolicyV3"}, cs \in CodeScanningValues, sc \in SupplyChainValues,
        ss \in SecretScanningValues}
    \cup {PolicyRequest("getPolicy", [root EXCEPT !.threatmodels = tms], repository) :
             root \in RootFields, tms \in ThreatModelDicts, repository \in Repositories}

InitPolicies ==
    /\ os_name = "posix"
    /\ technology = "secretscanning"
    /\ policy = <<SecretScanningPolicy>>
    /\ github = [isEnabled |-> TRUE, isSubFeatureEnabled |-> TRUE]
    /\ state = PolicyState_reset
    /\ severities = <<>>
    /\ pc = "idle"
    /\ alerts = <<>>
    /\ pidx = 1
    /\ todo = <<>>
    /\ last = Call("init", NoRule, NoAlert, <<>>, NoPolicy, [raised |-> "none", value |-> NoPolicy])
    /\ legacy = Policy_init("error")
    /\ recorded = PolicyState_reset
    /\ request \in PolicyRequests
    /\ cli = NoRun
    /\ pullrequest = NoPullRequest
    /\ codescanning = NoScan
    /\ evaluated = {}

\* what the constructors and getPolicy leave alone
policiesFrame == <<checkerVars, legacy, recorded, request, cliVars>>

\* Policy(**data) is constructed
CallPolicy ==
    /\ request.op = "Policy"
    /\ last' = Call("Policy", NoRule, NoAlert, <<>>, request.self, Policy_post_init(request.self))
    /\ UNCHANGED policiesFrame

\* PolicyV3(**data) is constructed
CallPolicyV3 ==
    /\ request.op = "PolicyV3"
    /\ last' = Call("PolicyV3", NoRule, NoAlert, <<>>, request.self,
                    PolicyV3_post_init(request.self))
    /\ UNCHANGED policiesFrame

\* getPolicy(repository) is called on a constructed PolicyV3
CallGetPolicy ==
    /\ request.op = "getPolicy"
    /\ LET self == PolicyV3_post_init(request.self).value
       IN last' = Call("getPolicy", NoRule, NoAlert, <<>>, self,
                       [raised |-> "none", value |-> getPolicy(self, request.repository)])
    /\ UNCHANGED policiesFrame

NextPolicies ==
    \/ CallPolicy
    \/ CallPolicyV3
    \/ CallGetPolicy

SpecPolicies == InitPolicies /\ [][NextPolicies]_vars

\* ------------------------------------ specification of getAnalyses
\* the arguments of CodeScanning(...)
RetryCounts == {0, 1, 2, 3}
RetrySleeps == {0, 15, 30}

\* reference or self.repository.reference: None, a branch, the merge ref of
\* a pull request
References == {"none", "refs/heads/main", "refs/pull/1/merge"}

\* what the platform answers to a request for the analyses: something that
\* is not a list, or a list of analyses
Responses ==
    {[islist |-> FALSE, list |-> <<>>], [islist |-> TRUE, list |-> <<>>],
     [islist |-> TRUE, list |-> <<"analysis-1">>],
     [islist |-> TRUE, list |-> <<"analysis-1", "analysis-2">>]}

InitScan ==
    /\ os_name = "posix"
    /\ technology = "secretscanning"
    /\ policy = <<SecretScanningPolicy>>
    /\ github = [isEnabled |-> TRUE, isSubFeatureEnabled |-> TRUE]
    /\ state = PolicyState_reset
    /\ severities = <<>>
    /\ pc = "idle"
    /\ alerts = <<>>
    /\ pidx = 1
    /\ todo = <<>>
    /\ last = Call("init", NoRule, NoAlert, PolicyState_reset, <<>>, Ok(<<>>))
    /\ legacy = Policy_init("error")
    /\ recorded = PolicyState_reset
    /\ request = NoRequest
    /\ cli = NoRun
    /\ pullrequest = NoPullRequest
    /\ codescanning \in {CodeScanning_init(retry_count, retry_sleep) :
                            retry_count \in RetryCounts, retry_sleep \in RetrySleeps}
    /\ evaluated = {}

\* what getAnalyses leaves alone
scanFrame == <<checkerVars, last, legacy, recorded, request, cli, pullrequest>>

\* ref.endswith("/merge") or ref.endswith("/head")
IsMergeOrHead(ref) == ref = "refs/pull/1/merge"

\* getAnalyses(reference, tool) is called: without a reference it raises,
\* otherwise it comes to the head of the while loop with counter = 0
GetAnalysesBegin ==
    /\ codescanning.pc \in {"idle", "returned", "raised"}
    /\ \E ref \in References, in_pr \in BOOLEAN :
          codescanning' =
              [codescanning EXCEPT
                  !.reference = ref, !.in_pr = in_pr, !.counter = 0, !.fetches = 0,
                  !.slept = 0, !.results = <<>>,
                  !.raised = IF ref = "none" THEN "Reference is required" ELSE "none",
                  !.pc = IF ref = "none" THEN "raised" ELSE "loop"]
    /\ UNCHANGED scanFrame

\* the while statement finds counter < retry_count false: the raise below
\* the loop
GetAnalysesLimit ==
    /\ codescanning.pc = "loop"
    /\ ~(codescanning.counter < codescanning.retry_count)
    /\ codescanning' = [codescanning EXCEPT !.pc = "raised",
                                            !.raised = "retry limit reached"]
    /\ UNCHANGED scanFrame

\* one pass of the while loop: the request, the second request for the head
\* of a pull request, then the sleep or the return
GetAnalysesAttempt ==
    /\ codescanning.pc = "loop"
    /\ codescanning.counter < codescanning.retry_count
    /\ \E first \in Responses, second \in Responses :
          LET retry == /\ first.islist
                       /\ Len(first.list) = 0
                       /\ codescanning.in_pr
                       /\ IsMergeOrHead(codescanning.reference)
              results == IF retry THEN second ELSE first
              fetches == codescanning.fetches + (IF retry THEN 2 ELSE 1)
          IN codescanning' =
                 IF ~results.islist \/ ~first.islist
                 THEN [codescanning EXCEPT !.counter = @ + 1, !.fetches = fetches,
                                           !.pc = "raised",
                                           !.raised = "Error getting analyses"]
                 ELSE IF Len(results.list) < 0
                 THEN [codescanning EXCEPT
                          !.counter = @ + 1, !.fetches = fetches,
                          !.slept = IF codescanning.retry_count < 1
                                    THEN @ + codescanning.retry_sleep ELSE @]
                 ELSE [codescanning EXCEPT !.counter = @ + 1, !.fetches = fetches,
                                           !.results = results.list, !.pc = "returned"]
    /\ UNCHANGED scanFrame

NextScan ==
    \/ GetAnalysesBegin
    \/ GetAnalysesLimit
    \/ GetAnalysesAttempt

SpecScan == InitScan /\ [][NextScan]_vars

\* ------------------------------------------------------------- properties
Kinds == {"criticals", "errors", "warnings", "ignored"}

\* after is before plus exactly one decision, of the given kind and trigger
OnlyAdded(before, after, kind, trigger) ==
    /\ Len(after[kind]) = Len(before[kind]) + 1
    /\ SubSeq(after[kind], 1, Len(before[kind])) = before[kind]
    /\ after[kind][Len(after[kind])].trigger = trigger
    /\ \A k \in Kinds \ {kind} : after[k] = before[k]

IsPrefix(s, t) == Len(s) <= Len(t) /\ s = SubSeq(t, 1, Len(s))

SecretEvaluated == last.op = "checkSecretScanningAlert"
SupplyEvaluated == last.op = "checkSupplyChainAlert"

\* C1: whenever the secret type of the evaluated alert matches a pattern of the
\* rule's ids_ignores, the evaluation adds exactly one ignored decision with
\* trigger "id-match" and no error, warning or critical, whatever the rule's
\* severity threshold and other lists.
C1_IgnoreDominates ==
    (SecretEvaluated /\ matchContent(last.alert.secret_type, last.rule.ids_ignores, os_name))
        => OnlyAdded(last.before, state, "ignored", "id-match")

\* the decision the fixed precedence asks for: ignore-by-id, warn-by-id,
\* error-by-id, error-by-name, then the severity threshold
PrecedenceDecision(rule, alert, os) ==
    IF matchContent(alert.secret_type, rule.ids_ignores, os) THEN <<"ignored", "id-match">>
    ELSE IF matchContent(alert.secret_type, rule.ids_warnings, os) THEN <<"warnings", "id-match">>
    ELSE IF matchContent(alert.secret_type, rule.ids, os) THEN <<"errors", "id-match">>
    ELSE IF matchContent(alert.secret_type_display_name, rule.names, os)
    THEN <<"errors", "name-match">>
    ELSE IF rule.severity = "all" THEN <<"errors", "severity-all">>
    ELSE <<"none", "none">>

\* C2: one evaluation records at most one decision, and it is the first
\* applicable one in the order ignore-by-id, warn-by-id, error-by-id,
\* error-by-name, severity threshold.
C2_FixedPrecedence ==
    SecretEvaluated =>
        LET d == PrecedenceDecision(last.rule, last.alert, os_name) IN
        IF d[1] = "none" THEN state = last.before
        ELSE OnlyAdded(last.before, state, d[1], d[2])

C4_SeverityFallback ==
    (/\ SupplyEvaluated
     /\ ~matchContent(last.alert.purl, last.rule.names, os_name)
     /\ ~matchContent(last.alert.ghsa_id, last.rule.advisories_ignores, os_name))
        => IF LabelLower(last.alert.severity)
                \in Range(getSeveritiesFromName(last.rule.severity, "higher").value)
           THEN OnlyAdded(last.before, state, "errors", "severity")
           ELSE state = last.before

\* C5: for a secret-scanning rule that sets only ids, an alert whose secret
\* type matches ids is recorded as exactly one error with trigger "id-match",
\* and an alert that matches nothing records no error.
C5_ErrorById ==
    (/\ SecretEvaluated
     /\ last.rule.ids # <<>>
     /\ last.rule = [SecretScanningPolicy EXCEPT !.ids = last.rule.ids])
        => IF matchContent(last.alert.secret_type, last.rule.ids, os_name)
           THEN OnlyAdded(last.before, state, "errors", "id-match")
           ELSE state.errors = last.before.errors

\* C6: for a secret-scanning rule that sets only ids_warnings, an alert whose
\* secret type matches ids_warnings is recorded as exactly one warning with
\* trigger "id-match" and adds nothing to errors, criticals or ignored.
C6_WarnById ==
    (/\ SecretEvaluated
     /\ last.rule.ids_warnings # <<>>
     /\ last.rule = [SecretScanningPolicy EXCEPT !.ids_warnings = last.rule.ids_warnings]
     /\ matchContent(last.alert.secret_type, last.rule.ids_warnings, os_name))
        => OnlyAdded(last.before, state, "warnings", "id-match")

\* the list is the prefix of canon that ends at and includes t
PrefixEndingAt(list, canon, t) ==
    /\ IsPrefix(list, canon)
    /\ list # <<>>
    /\ list[Len(list)] = t

\* C7: for every threshold t of the taxonomy the list returned for t is the
\* prefix of the canonical list ending at and including t, the full list for
\* "all" and empty for "none"; and a threshold at or above another has its
\* list contained in the other's.
C7_AtOrAbovePrefix ==
    /\ (last.op = "getSeveritiesFromName" /\ last.arg[2] = "higher"
            /\ last.arg[1] \in SeverityLevelEnum)
          => LET t == last.arg[1]
                 list == last.result.value
             IN /\ last.result.raised = "none"
                /\ t = "all" => list = getAllSeverities
                /\ t = "none" => list = <<>>
                /\ t \notin {"all", "none"} =>
                     /\ PrefixEndingAt(list, getAllSeverities, t)
                     /\ \A t2 \in Range(getAllSeverities) :
                           IndexOf(getAllSeverities, t) <= IndexOf(getAllSeverities, t2)
                             => Range(list) \subseteq
                                   Range(getSeveritiesFromName(t2, "higher").value)
    /\ (last.op = "_buildSeverityList"
            /\ last.arg[1] \in Range(SEVERITIES) \cup {"all", "none"})
          => LET t == last.arg[1]
                 list == last.result.value
             IN /\ last.result.raised = "none"
                /\ t = "all" => list = SEVERITIES
                /\ t = "none" => list = <<>>
                /\ t \notin {"all", "none"} =>
                     /\ PrefixEndingAt(list, SEVERITIES, t)
                     /\ \A t2 \in Range(SEVERITIES) :
                           IndexOf(SEVERITIES, t) <= IndexOf(SEVERITIES, t2)
                             => Range(list) \subseteq Range(_buildSeverityList(t2).value)

\* getSeveritiesFromName("error") returned critical, high, error
C7_Witness ==
    /\ last.op = "getSeveritiesFromName"
    /\ last.arg = <<"error", "higher">>
    /\ last.result = Ok(<<"critical", "high", "error">>)

\* C8: "error"/"errors" and "warning"/"warnings" are one severity each: for
\* every threshold, "errors" is at or above it exactly when "error" is
\* (likewise "warnings" and "warning"), and the thresholds "error" and
\* "errors" give the same list.
C8_AliasesShareRank ==
    (last.op = "getSeveritiesFromName" /\ last.arg[2] = "higher"
        /\ last.arg[1] \in SeverityLevelEnum)
      => LET list == last.result.value IN
         /\ ("errors" \in Range(list)) <=> ("error" \in Range(list))
         /\ ("warnings" \in Range(list)) <=> ("warning" \in Range(list))
         /\ last.arg[1] = "error" => list = getSeveritiesFromName("errors", "higher").value

\* the label is not empty and, lower-cased, is not a label of the taxonomy
UnknownLabel(label, canon) ==
    label # "" /\ LabelLower(label) \notin Range(canon) \cup {"all", "none"}

\* C9 as stated: an unknown label used as a threshold never makes either
\* helper fail; both return the empty list, as for "none".
C9_UnknownThresholdIsNone ==
    /\ (last.op = "getSeveritiesFromName" /\ UnknownLabel(last.arg[1], getAllSeverities))
          => last.result = Ok(<<>>)
    /\ (last.op = "_buildSeverityList" /\ UnknownLabel(last.arg[1], SEVERITIES))
          => last.result = Ok(<<>>)

\* C9 amended: the legacy Policy._buildSeverityList returns the empty list for
\* an unknown non-empty label and does not fail; getSeveritiesFromName fails
\* with ValueError for every label that is not a value of the enum.
C9_UnknownThresholdLegacyOnly ==
    /\ (last.op = "_buildSeverityList" /\ UnknownLabel(last.arg[1], SEVERITIES))
          => last.result = Ok(<<>>)
    /\ (last.op = "getSeveritiesFromName" /\ last.arg[1] \notin SeverityLevelEnum)
          => last.result.raised = "ValueError"

\* _buildSeverityList("bogus") returned the empty list
C9_Witness ==
    /\ last.op = "_buildSeverityList"
    /\ last.arg = <<"bogus">>
    /\ last.result = Ok(<<>>)

\* C10: matchContent is true exactly when at least one pattern of the list
\* glob-matches the candidate ignoring letter case, and false for the empty
\* list.
C10_MatchIgnoresCase ==
    last.op = "matchContent"
      => LET name == last.arg[1]
             validators == last.arg[2]
         IN last.result.value =
              (\E i \in 1..Len(validators) :
                  GlobMatch(StrLower(name), StrLower(validators[i])))

\* ------------------------------------------ properties of the legacy Policy
RemediationChecked == last.op = "checkViolationRemediation"

\* the day count d has run out for an alert created at creation_time: now is
\* strictly after creation date + d days; never without a creation time
Elapsed(creation_time, d, now) == creation_time.given /\ now > creation_time.day + d

\* severity is at or above the threshold key in the descending order of
\* SEVERITIES; "all" is below every label of the order
AtOrAbove(key, severity) ==
    /\ IndexOf(SEVERITIES, severity) # 0
    /\ \/ key = "all"
       \/ /\ IndexOf(SEVERITIES, key) # 0
          /\ IndexOf(SEVERITIES, severity) <= IndexOf(SEVERITIES, key)

\* the keys of the table that govern the severity
Governing(remediate, severity) ==
    {i \in 1..Len(remediate) : AtOrAbove(remediate[i].key, severity)}

\* C11: for a severity with a direct entry of d days in the table,
\* checkViolationRemediation returns true exactly when today is strictly after
\* creation date + d days (created exactly d days ago, today or in the future:
\* not elapsed), and with a creation time it returns without failing.
C11_ExclusiveBoundary ==
    RemediationChecked
      => LET severity == last.arg[1]
             remediate == last.arg[2]
             creation_time == last.arg[3]
             now == last.arg[4]
         IN HasKey(remediate, severity)
              => /\ (last.result = OkB(TRUE))
                      <=> Elapsed(creation_time, Get(remediate, severity), now)
                 /\ creation_time.given => last.result.raised = "none"

\* d = 5: an alert created 10 days ago has elapsed
C11_Witness ==
    /\ RemediationChecked
    /\ last.arg = <<"error", <<Item("error", 5)>>, At(0), 10>>
    /\ last.result = OkB(TRUE)

\* C12: without a direct entry, the result of checkViolationRemediation is
\* decided by the first key of the table that governs the severity alone:
\* true iff that key's day count has run out, whatever later keys say.
C12_FirstKeyWins ==
    RemediationChecked
      => LET severity == last.arg[1]
             remediate == last.arg[2]
             creation_time == last.arg[3]
             now == last.arg[4]
             governing == Governing(remediate, severity)
         IN (~HasKey(remediate, severity) /\ creation_time.given /\ governing # {})
              => LET first == CHOOSE i \in governing : \A j \in governing : i <= j
                 IN last.result = OkB(Elapsed(creation_time, remediate[first].days, now))

\* C12 amended: without a direct entry, checkViolationRemediation returns true
\* exactly when the day count of some key that governs the severity has run
\* out; a governing key that has not run out does not end the scan, so the
\* order of the keys does not decide the result.
C12_AnyGoverningKeyElapsed ==
    RemediationChecked
      => LET severity == last.arg[1]
             remediate == last.arg[2]
             creation_time == last.arg[3]
             now == last.arg[4]
         IN ~HasKey(remediate, severity)
              => ((last.result = OkB(TRUE))
                    <=> \E i \in Governing(remediate, severity) :
                           Elapsed(creation_time, remediate[i].days, now))

\* a critical alert created 7 days ago, table {low: 7, error: 1}: the first
\* governing key has not run out, the second has, the result is true
C12_Witness ==
    /\ RemediationChecked
    /\ last.arg = <<"critical", <<Item("low", 7), Item("error", 1)>>, At(3), 10>>
    /\ last.result = OkB(TRUE)

\* C13: without a direct entry, a key governs the alert only when the severity
\* is at or above it: when no key governs, the result is false for any
\* creation time; with the single key of a one-entry table governing, the
\* result is whether that key's day count has run out.
C13_UpwardOnly ==
    RemediationChecked
      => LET severity == last.arg[1]
             remediate == last.arg[2]
             creation_time == last.arg[3]
             now == last.arg[4]
         IN ~HasKey(remediate, severity)
              => /\ Governing(remediate, severity) = {} => last.result = OkB(FALSE)
                 /\ (Len(remediate) = 1 /\ Governing(remediate, severity) = {1}
                       /\ creation_time.given)
                      => last.result = OkB(Elapsed(creation_time, remediate[1].days, now))

\* table {error: 1}, a critical alert created 7 days ago: elapsed
C13_Witness ==
    /\ RemediationChecked
    /\ last.arg = <<"critical", <<Item("error", 1)>>, At(3), 10>>
    /\ last.result = OkB(TRUE)

\* C14: called without a creation time, checkViolationRemediation returns
\* false and does not fail, for every severity and every table.
C14_NoCreationTimeNeverElapsed ==
    (RemediationChecked /\ ~last.arg[3].given) => last.result = OkB(FALSE)

ViolationChecked == last.op = "checkViolation"

\* the grace period of the alert has run out under the table: under the
\* direct entry of its severity when there is one with a day count, otherwise
\* under some key that governs the severity
GraceElapsed(severity, remediate, creation_time, now) ==
    IF HasKey(remediate, severity) /\ Get(remediate, severity) # 0
    THEN Elapsed(creation_time, Get(remediate, severity), now)
    ELSE \E i \in Governing(remediate, severity) :
            Elapsed(creation_time, remediate[i].days, now)

C16_InheritedTableViolation ==
    (ViolationChecked /\ last.arg[2] # "" /\ PolicyLoaded(legacy.policy))
      => LET severity == LabelLower(last.arg[1])
             sec == PolicyGet(legacy.policy, last.arg[2])
             creation_time == last.arg[5]
         IN (/\ sec.level \in Range(SEVERITIES)
             /\ sec.conditions = NoBlock
             /\ sec.ignores = NoBlock
             /\ legacy.remediate.given
             /\ sec.remediate = legacy.remediate.table
             /\ HasKey(sec.remediate, severity)
             /\ creation_time.given)
              => last.result = OkB(Elapsed(creation_time, Get(sec.remediate, severity),
                                           last.arg[6]))

\* the remediation table of a section, empty when it has none
TableOf(sec) == IF sec.has_remediate THEN sec.remediate ELSE <<>>

\* C17: after loadPolicy, a technology section that defines its own remediate
\* keeps it unchanged, every other technology section has the remediation
\* table of the general section, and the general section has the table it
\* was given.
C17_RemediateInheritance ==
    last.op = "loadPolicy"
      => LET doc == last.arg[1] IN
         /\ TableOf(legacy.policy["general"]) = TableOf(doc["general"])
         /\ \A i \in 1..Len(TECHNOLOGIES) :
               LET tech == TECHNOLOGIES[i] IN
               IF doc[tech].defined /\ doc[tech].has_remediate
               THEN /\ legacy.policy[tech].has_remediate
                    /\ legacy.policy[tech].remediate = doc[tech].remediate
               ELSE TableOf(legacy.policy[tech]) = TableOf(legacy.policy["general"])

\* general {error: 1}; codescanning without a table got it, dependabot kept
\* its own {high: 7}
C17_Witness ==
    /\ last.op = "loadPolicy"
    /\ last.arg[1]["general"].remediate = <<Item("error", 1)>>
    /\ last.arg[1]["codescanning"].defined
    /\ ~last.arg[1]["codescanning"].has_remediate
    /\ last.arg[1]["dependabot"].remediate = <<Item("high", 7)>>
    /\ legacy.policy["codescanning"].remediate = <<Item("error", 1)>>
    /\ legacy.policy["dependabot"].remediate = <<Item("high", 7)>>

C19_ResetClearsAll ==
    /\ last.op = "reset" => \A k \in Kinds : state[k] = <<>>
    /\ \A k \in Kinds : state[k] = recorded[k]

\* reset has run on a state that held a decision of every kind
C19_Witness ==
    /\ last.op = "reset"
    /\ \A k \in Kinds : last.before[k] # <<>>
    /\ state = PolicyState_reset

\* ------------------------------------------------- properties of check()
\* the rule check() is at requires the feature and the platform reports it off
GateFails == pc = "policy" /\ policy[pidx].enabled /\ ~github.isEnabled

NotEnabledMessage ==
    IF technology = "secretscanning" THEN <<"Secret Scanning is not enabled">>
    ELSE <<"Dependabot is not enabled">>

\* C20: when the gate of a rule fails, the step of check() records exactly one
\* critical "<Technology> is not enabled" and ends the run without touching
\* the alerts; once the run is over no decision is recorded until a new run
\* begins; the steps that evaluate alerts record no critical.
C20_EnabledGateEndsRun ==
    [][/\ GateFails
            => /\ pc' = "done"
               /\ OnlyAdded(state, state', "criticals", "na")
               /\ state'.criticals[Len(state'.criticals)].msg = NotEnabledMessage
               /\ todo' = todo
       /\ pc = "done" => (state' = state \/ pc' = "idle")
       /\ pc = "alerts" => state'.criticals = state.criticals]_vars

\* the gate of a rule failed with alerts fetched: one critical, run over
C20_Witness ==
    /\ last.op = "checkPolicy"
    /\ last.rule.enabled
    /\ ~github.isEnabled
    /\ alerts # <<>>
    /\ pc = "done"
    /\ OnlyAdded(last.before, state, "criticals", "na")

\* the decisions of kind k that after has and before has not
Added(before, after, k) == SubSeq(after[k], Len(before[k]) + 1, Len(after[k]))

\* what the sub-flag check of a rule records, given the state before it
SubFlagDecision ==
    IF technology = "secretscanning"
    THEN IF last.rule.push_protection /\ ~github.isSubFeatureEnabled
         THEN OnlyAdded(last.before, state, "errors", "enabled")
         ELSE IF last.rule.push_protection_warning /\ ~github.isSubFeatureEnabled
         THEN OnlyAdded(last.before, state, "warnings", "enabled-warning")
         ELSE state = last.before
    ELSE IF last.rule.security_updates /\ ~github.isSubFeatureEnabled
         THEN OnlyAdded(last.before, state, "errors", "na")
         ELSE state = last.before

\* the errors and warnings the step of a rule has added are those its
\* sub-flags ask for
SubFlagCounts ==
    LET e == Added(last.before, state, "errors")
        w == Added(last.before, state, "warnings")
        off == ~github.isSubFeatureEnabled
    IN IF technology = "secretscanning"
       THEN IF last.rule.push_protection /\ off
            THEN Len(e) = 1 /\ e[1].trigger = "enabled" /\ w = <<>>
            ELSE IF last.rule.push_protection_warning /\ off
            THEN Len(w) = 1 /\ w[1].trigger = "enabled-warning" /\ e = <<>>
            ELSE e = <<>> /\ w = <<>>
       ELSE IF last.rule.security_updates /\ off
            THEN Len(e) = 1 /\ e[1].trigger = "na" /\ w = <<>>
            ELSE e = <<>> /\ w = <<>>

\* the evaluation of an alert records no sub-flag decision
NoSubFlagPerAlert ==
    (SecretEvaluated \/ SupplyEvaluated)
      => \A k \in Kinds : \A i \in 1..Len(Added(last.before, state, k)) :
            Added(last.before, state, k)[i].trigger \notin {"enabled", "enabled-warning", "na"}

\* C21: for every rule check() comes to, with the sub-feature off on the
\* platform it records one error when the rule requires the sub-feature,
\* otherwise (secret scanning) one warning when the rule has the warning flag,
\* never both, and nothing with the sub-feature on; all alerts are then
\* evaluated, and evaluating an alert records no sub-flag decision.
C21_SubFlagsEveryRule ==
    /\ last.op = "checkPolicy" => SubFlagCounts
    /\ NoSubFlagPerAlert

\* C21 amended: the same, for every rule whose enabled gate lets check() go
\* on; a rule whose gate fails records the critical only.
C21_SubFlagsAfterGate ==
    /\ (last.op = "checkPolicy" /\ ~(last.rule.enabled /\ ~github.isEnabled))
          => (SubFlagDecision /\ todo = alerts)
    /\ (last.op = "checkPolicy" /\ last.rule.enabled /\ ~github.isEnabled)
          => OnlyAdded(last.before, state, "criticals", "na")
    /\ NoSubFlagPerAlert

\* a rule with both flags, push protection off: one error, no warning, and
\* the alerts are still to be evaluated
C21_Witness ==
    /\ last.op = "checkPolicy"
    /\ technology = "secretscanning"
    /\ ~(last.rule.enabled /\ ~github.isEnabled)
    /\ last.rule.push_protection
    /\ last.rule.push_protection_warning
    /\ ~github.isSubFeatureEnabled
    /\ OnlyAdded(last.before, state, "errors", "enabled")
    /\ todo # <<>>

\* the run has left the process and no check raised
AllChecksCompleted == cli.pc = "exited" /\ ~cli.raised

\* the run has left the process after a check raised
CheckFailed == cli.pc = "exited" /\ cli.raised

\* C22: once all enabled checks have completed, the process exits non-zero
\* exactly when the summed count is above zero and the action is "break";
\* with a count of zero, or with the action "continue", it exits zero.
C22_ExitCodeContract ==
    AllChecksCompleted
      => /\ cli.exit_code # 0 <=> (cli.errors > 0 /\ cli.action = "break")
         /\ (cli.errors = 0 \/ cli.action = "continue") => cli.exit_code = 0

\* a run of some checks that counted errors under "break" and exited with 1
C22_Witness ==
    /\ AllChecksCompleted
    /\ cli.action = "break"
    /\ cli.errors > 0
    /\ cli.exit_code = 1
    /\ cli.summary # <<>>

\* C23: when a check raises, the run logs the exception, still emits the job
\* summary and the pull-request comment with what was accumulated, and exits
\* non-zero whatever the count and the action; in debug mode the exception is
\* raised again after the summary.
C23_FailureExitsNonZero ==
    CheckFailed
      => /\ cli.logged
         /\ cli.pr_comment_called
         /\ cli.job_summary_written => Token("header", "Error Encountered") \in Range(cli.job_summary)
         /\ cli.exit_code # 0
         /\ cli.debug => cli.reraise

\* the comments whose body holds the marker
Carrying(comments, marker) == {i \in DOMAIN comments : marker \in Range(comments[i].body)}

\* the marker of the call last holds
LastMarker ==
    COMMENT_MARKER(IF last.arg.policy_name # "" THEN last.arg.policy_name ELSE "Unknown")

\* C30: a call of addPrComment sends at most one write, never a create and an
\* update; enabled and in a pull request, it updates the comment that holds
\* the marker when there is one and creates one otherwise; disabled or
\* outside a pull request it sends no read and no write; so no marker is
\* ever carried by more than one comment.
C30_PrCommentUpsert ==
    /\ last.op = "addPrComment"
         => LET r == last.result
                had == Carrying(last.before, LastMarker)
                enabled == pullrequest.add_pr_comment /\ pullrequest.in_pr
            IN /\ r.creates + r.updates <= 1
               /\ ~enabled => (r.reads = 0 /\ r.creates = 0 /\ r.updates = 0
                                 /\ pullrequest.comments = last.before)
               /\ (enabled /\ last.arg.fails # "read")
                    => /\ r.reads = 1
                       /\ r.updates = (IF had # {} THEN 1 ELSE 0)
                       /\ r.creates = (IF had # {} THEN 0 ELSE 1)
               /\ (enabled /\ last.arg.fails = "none" /\ had # {})
                    => /\ Len(pullrequest.comments) = Len(last.before)
                       /\ \A i \in DOMAIN last.before :
                             pullrequest.comments[i] =
                                 IF i \in had THEN Comment(last.before[i].id, r.summary)
                                 ELSE last.before[i]
               /\ (enabled /\ last.arg.fails = "none" /\ had = {})
                    => /\ Len(pullrequest.comments) = Len(last.before) + 1
                       /\ SubSeq(pullrequest.comments, 1, Len(last.before)) = last.before
                       /\ pullrequest.comments[Len(pullrequest.comments)].body = r.summary
    /\ \A name \in {"Unknown", "p"} :
          Cardinality(Carrying(pullrequest.comments, COMMENT_MARKER(name))) <= 1

\* a second run for the same policy on a pull request somebody else has
\* commented on: the comment of the first run is updated
C30_Witness ==
    /\ last.op = "addPrComment"
    /\ pullrequest.add_pr_comment /\ pullrequest.in_pr
    /\ last.arg.fails = "none"
    /\ last.result.updates = 1
    /\ Len(pullrequest.comments) >= 2
    /\ Cardinality(Carrying(pullrequest.comments, LastMarker)) = 1

\* the rule fields of a Policy
RuleFields == {"codescanning", "supplychain", "secretscanning"}

\* the rule class of a rule field
ClassOf(f) ==
    CASE f = "codescanning" -> "CodeScanningPolicy"
      [] f = "supplychain" -> "SupplyChainPolicy"
      [] f = "secretscanning" -> "SecretScanningPolicy"

\* a Policy or PolicyV3 has been constructed
Constructed == last.op \in {"Policy", "PolicyV3"} /\ last.result.raised = "none"

\* C24: every constructed Policy / PolicyV3 has a non-empty list of rules per
\* technology: an empty list has become the one default rule of the
\* technology, a single mapping a one-element list, and a non-empty list
\* keeps its length and order.
C24_RuleListsNeverEmpty ==
    Constructed
      => \A f \in RuleFields :
            LET given == last.arg[f]
                got == last.result.value[f]
            IN /\ got.kind = "list"
               /\ Len(got.elems) >= 1
               /\ \A i \in DOMAIN got.elems : got.elems[i].isobj
               /\ (given.kind = "list" /\ given.elems = <<>>)
                    => got.elems = <<RuleObject(DefaultRule(ClassOf(f)))>>
               /\ given.kind = "dict" => Len(got.elems) = 1
               /\ (given.kind = "list" /\ given.elems # <<>>)
                    => /\ Len(got.elems) = Len(given.elems)
                       /\ \A i \in DOMAIN given.elems :
                             given.elems[i].isobj => got.elems[i] = given.elems[i]

\* C24 amended: the same for every rule field given as a list or as a single
\* mapping; a field given as anything else (None) is kept as it is.
C24_ListsAndMappingsNeverEmpty ==
    Constructed
      => \A f \in RuleFields :
            LET given == last.arg[f]
                got == last.result.value[f]
            IN /\ given.kind = "none" => got = given
               /\ given.kind # "none"
                    => /\ got.kind = "list"
                       /\ Len(got.elems) >= 1
                       /\ \A i \in DOMAIN got.elems : got.elems[i].isobj
               /\ (given.kind = "list" /\ given.elems = <<>>)
                    => got.elems = <<RuleObject(DefaultRule(ClassOf(f)))>>
               /\ given.kind = "dict" => Len(got.elems) = 1
               /\ (given.kind = "list" /\ given.elems # <<>>)
                    => /\ Len(got.elems) = Len(given.elems)
                       /\ \A i \in DOMAIN given.elems :
                             given.elems[i].isobj => got.elems[i] = given.elems[i]

\* a PolicyV3 constructed from two code-scanning rules, no supply-chain rule
\* and a single secret-scanning mapping
C24_Witness ==
    /\ last.op = "PolicyV3"
    /\ last.result.raised = "none"
    /\ last.arg.codescanning.kind = "list" /\ Len(last.arg.codescanning.elems) = 2
    /\ Len(last.result.value.codescanning.elems) = 2
    /\ last.arg.supplychain = ListValue(<<>>)
    /\ last.result.value.supplychain.elems[1].fields.severity = "high"
    /\ last.arg.secretscanning.kind = "dict"
    /\ last.result.value.secretscanning.elems[1].fields.push_protection

\* the repository getPolicy was asked about, as owner/repo
AskedRepo == RepoName(request.repository.owner, request.repository.repo)

\* the threat model item names the repository: by its owner, by its list of
\* repositories, or by its own name
Covers(item) ==
    \/ item.tm.owner # "" /\ item.tm.owner = request.repository.owner
    \/ AskedRepo \in Range(item.tm.repositories)
    \/ item.name = AskedRepo

\* the same, with the list of repositories read only when the threat model
\* has no owner
CoversOwnerFirst(item) ==
    \/ item.tm.owner # "" /\ item.tm.owner = request.repository.owner
    \/ item.tm.owner = "" /\ AskedRepo \in Range(item.tm.repositories)
    \/ item.name = AskedRepo

\* the result of getPolicy carries the rules of the root policy
IsRootFallback ==
    /\ last.result.value.name = "default"
    /\ \A f \in RuleFields : last.result.value[f] = last.arg[f]

\* the result of getPolicy is the policy of the first of the given items
IsFirstOf(hits) ==
    \E i \in hits : /\ \A j \in hits : i <= j
                    /\ last.result.value = last.arg.threatmodels[i].tm.policy

C28_RetriesUntilNonEmpty ==
    /\ codescanning.pc = "returned"
         => /\ codescanning.results # <<>>
            /\ codescanning.counter <= codescanning.retry_count
            /\ codescanning.slept = codescanning.retry_sleep * (codescanning.counter - 1)
    /\ (codescanning.pc = "raised" /\ codescanning.raised = "retry limit reached")
         => codescanning.counter = codescanning.retry_count

\* the severity label of the alert names no member of the taxonomy
UnknownSeverity(alert) == LabelLower(alert.severity) \notin SeverityLevelEnum

\* C25: the evaluation of a supply-chain alert whose severity label is not in
\* the taxonomy records no decision, whatever the threshold of the rule, and
\* check() goes on: the alerts behind it are evaluated against the same rule.
C25_UnknownSeverityNeverViolates ==
    /\ (SupplyEvaluated /\ UnknownSeverity(last.alert))
          => /\ state = last.before
             /\ todo # <<>> => pc = "alerts"
    /\ (SupplyEvaluated /\ todo = <<>>)
          => \A i \in DOMAIN alerts :
                \E e \in evaluated : e.alert = alerts[i] /\ e.rule = last.rule

\* under the threshold "all" an alert of unknown severity was passed over
\* and the critical alert behind it recorded
C25_Witness ==
    /\ SupplyEvaluated
    /\ last.rule.severity = "all"
    /\ Len(alerts) = 2
    /\ UnknownSeverity(alerts[1])
    /\ last.alert = alerts[2]
    /\ \E e \in evaluated : e.alert = alerts[1] /\ e.decision.kind = "none"
    /\ OnlyAdded(last.before, state, "errors", "severity")

AgainstChecked ==
    /\ last.op = "checkViolationAgainstPolicy"
    /\ last.arg[2] # ""
    /\ Truthy(PolicyGet(legacy.policy, last.arg[2]))

\* the candidate, lower-cased, matches a pattern of the list, lower-cased
Hits(cand, patterns) == matchContent(StrLower(cand), LowerAll(patterns), os_name)

\* the index of the first candidate that matches a pattern of either list,
\* 0 when there is none
FirstDecisive(cands, ignores, conditions) ==
    LET hits == {i \in DOMAIN cands : Hits(cands[i], ignores) \/ Hits(cands[i], conditions)}
    IN IF hits = {} THEN 0 ELSE CHOOSE i \in hits : \A j \in hits : i <= j

\* C29: checkViolationAgainstPolicy is decided by the first candidate that
\* matches a pattern, the names in order before the ids in order: not a
\* violation when that candidate matches an ignore pattern, a violation
\* otherwise; the severity threshold decides only when no candidate matches.
C29_FirstMatchingCandidateDecides ==
    AgainstChecked
      => LET sec == PolicyGet(legacy.policy, last.arg[2])
             names == last.arg[3]
             ids == last.arg[4]
             n == FirstDecisive(names, sec.ignores.names, sec.conditions.names)
             d == FirstDecisive(ids, sec.ignores.ids, sec.conditions.ids)
         IN IF n # 0 THEN last.result.value = ~Hits(names[n], sec.ignores.names)
            ELSE IF d # 0 THEN last.result.value = ~Hits(ids[d], sec.ignores.ids)
            ELSE last.result.value =
                     checkViolationAgainstPolicy(legacy, last.arg[1], last.arg[2],
                                                 <<>>, <<>>, os_name)

\* the first name matches a condition pattern and the second an ignore
\* pattern: a violation, for a severity below the threshold
C29_Witness ==
    /\ AgainstChecked
    /\ Len(last.arg[3]) = 2
    /\ LET sec == PolicyGet(legacy.policy, last.arg[2])
       IN /\ Hits(last.arg[3][1], sec.conditions.names)
          /\ ~Hits(last.arg[3][1], sec.ignores.names)
          /\ Hits(last.arg[3][2], sec.ignores.names)
    /\ last.result.value
    /\ ~checkViolationAgainstPolicy(legacy, last.arg[1], last.arg[2], <<>>, <<>>, os_name)

====
